---- MODULE Spec2Model ----
(***************************************************************************)
(* The Help Center backup/restore tool.                                    *)
(*                                                                         *)
(*   zendesk_api.restore_structure  reconciliation of categories/sections  *)
(*   zendesk_api.restore_article    create-or-update of one article        *)
(*   zendesk_api.get_valid_section_id, get_permission_groups,              *)
(*     get_user_segments            the fallback lookups                   *)
(*   backup.restore_articles        the restore pass: archive listing,     *)
(*                                  structure, lookups, probe, main loop   *)
(*   backup.backup_articles         the backup pass: listing and pulls     *)
(*   backup.__main__                validation, the passes, the exit code  *)
(*   config.load_config             file, environment, target defaults     *)
(*                                                                         *)
(* Specifications: SpecStructure (restore_structure alone), SpecArticles   *)
(* (probe and loop), SpecLoop (the loop from its head), SpecLookups,       *)
(* SpecPass (a whole restore pass), SpecBackup (SpecBackupFair with weak   *)
(* fairness of its steps), SpecMain, SpecPayload (the payload of one       *)
(* article), SpecConfig (load_config and the run after it), SpecRun (both  *)
(* passes of a run, step by step).                                         *)
(*                                                                         *)
(* The remote instance is the environment: every request gets an outcome   *)
(* "ok" (the instance answers according to its state), "fail" (a           *)
(* non-success status), "exc" (the HTTP client raises) and, for the create *)
(* calls of the reconciliation, "noid" (a success status whose body has no *)
(* id).                                                                    *)
(***************************************************************************)
EXTENDS Integers, Sequences, FiniteSets, TLC

\* Python None; `not x` is true of it (an absent / empty identifier).
None == 0

\* ------------------------------------------------------------------ bounds
\* Longest categories.json / sections.json snapshot that is drawn.
MaxCats == 2
MaxSecs == 2
\* Longest queue of article ids that get_article_ids_from_backup returns.
MaxArticles == 2
\* Number of requests of one run that may end other than "ok".
MaxFaults == 1
\* The same for a whole restore pass (structure, lookups and articles).
PassFaults == 2

\* ------------------------------------------------------------- value sets
\* Names in the snapshot; the target's listings below spell them "FAQ", "News".
SnapshotNames == {"faq", "News"}

\* str.lower() on the names that occur.
Lower(name) ==
    CASE name = "FAQ" -> "faq"
      [] name = "News" -> "news"
      [] name = "Staff" -> "staff"
      [] name = "Everyone" -> "everyone"
      [] name = "Signed-in users" -> "signed-in users"
      [] OTHER -> name

\* Identifiers of the source instance, by position in the snapshot files.
SourceCategoryId(k) == k
SourceSectionId(k) == 10 + k

SeqsUpTo(S, n) == UNION {[1..k -> S] : k \in 0..n}

\* categories.json as backup_categories_and_sections wrote it.
CategorySnapshots ==
    {c \in SeqsUpTo([id : 1..MaxCats, name : SnapshotNames], MaxCats) :
        \A k \in 1..Len(c) : c[k].id = SourceCategoryId(k)}

\* sections.json; category_id is the parent's identifier on the source: the
\* first or the last category a snapshot can hold.
SectionSnapshots ==
    {s \in SeqsUpTo([id : {SourceSectionId(k) : k \in 1..MaxSecs},
                     name : SnapshotNames,
                     category_id : {SourceCategoryId(1), SourceCategoryId(MaxCats)}],
                    MaxSecs) :
        \A k \in 1..Len(s) : s[k].id = SourceSectionId(k)}

\* What the target instance holds before the restore pass.
TargetCategoryListings ==
    { <<>>,
      <<[id |-> 21, name |-> "FAQ"]>>,
      <<[id |-> 21, name |-> "News"], [id |-> 22, name |-> "FAQ"]>> }

TargetSectionListings ==
    { <<>>,
      <<[id |-> 31, name |-> "FAQ"]>>,
      <<[id |-> 31, name |-> "News"], [id |-> 32, name |-> "FAQ"]>> }

\* Permission groups and user segments of the target instance.
TargetPermissionGroupListings ==
    { <<>>,
      <<[id |-> 41, name |-> "Admins"]>>,
      <<[id |-> 41, name |-> "Admins"], [id |-> 42, name |-> "Editors"]>> }

TargetUserSegmentListings ==
    { <<>>,
      <<[id |-> 51, name |-> "Staff"]>>,
      <<[id |-> 51, name |-> "Staff"], [id |-> 52, name |-> "Everyone"]>>,
      <<[id |-> 51, name |-> "Signed-in users"], [id |-> 52, name |-> "Everyone"]>> }

\* config['section_id'], config['permission_group_id'], config['user_segment_id'].
ConfiguredSectionIds == {None, 77}
ConfiguredPermissionGroupIds == {None, 47}
ConfiguredUserSegmentIds == {None, 57}

FileStates == {"missing", "unreadable", "ok"}

\* Article ids in the archive.  The list comes from the *.html file names
\* (int(file.split('.')[0])), so one id can be queued twice.
ArticleIds == {101, 102}
ArticleQueues == SeqsUpTo(ArticleIds, MaxArticles) \ {<<>>}

\* {id}.html: its content, or a file that cannot be read.
Unreadable == "<unreadable>"
Bodies == {"<p>Hi</p>", Unreadable}

\* {id}.json as get_article_metadata returns it.  kind "none": no file, an
\* unreadable file or an empty object (all falsy); "notdict": JSON that is
\* not an object.  title NoTitle / section_id None: the key is absent.
\* permission_group_id and user_segment_id are what pull_article stored: the
\* article's own on the source instance.
NoTitle == ""
StoredPermissionGroupId == 48
StoredUserSegmentId == 58
NoMetadata == [kind |-> "none", title |-> NoTitle, section_id |-> None,
               permission_group_id |-> None, user_segment_id |-> None]
Metadatas ==
    { NoMetadata,
      [kind |-> "notdict", title |-> NoTitle, section_id |-> None,
       permission_group_id |-> None, user_segment_id |-> None],
      [kind |-> "dict", title |-> "Hi", section_id |-> 5,
       permission_group_id |-> StoredPermissionGroupId,
       user_segment_id |-> StoredUserSegmentId],
      [kind |-> "dict", title |-> "Hi", section_id |-> 6,
       permission_group_id |-> StoredPermissionGroupId,
       user_segment_id |-> StoredUserSegmentId],
      [kind |-> "dict", title |-> NoTitle, section_id |-> None,
       permission_group_id |-> None, user_segment_id |-> None] }

\* config.json and the environment.  A dict of credentials is a function on
\* the keys it holds; "" is a key that holds the empty string.
CredentialFields == {"zendesk_api_token", "zendesk_user_email", "zendesk_subdomain"}
AllSet(v) == [f \in CredentialFields |-> v]
OnlySet(f, v) == [g \in {f} |-> v]
NoneSet == <<>>

\* format "none": no file, or one json.load cannot read; "new": the file has
\* a 'source' key; "old": the credentials are top-level keys.
ConfigFile(format, source, has_target, target) ==
    [format |-> format, source |-> source, has_target |-> has_target,
     target |-> target]
NoConfigFile == ConfigFile("none", NoneSet, FALSE, NoneSet)
ConfigFiles ==
    { NoConfigFile,
      \* what create_default_config writes
      ConfigFile("new", AllSet(""), TRUE, AllSet("")),
      ConfigFile("new", AllSet("file-source"), FALSE, NoneSet),
      ConfigFile("new", AllSet("file-source"), TRUE, AllSet("")),
      ConfigFile("new", AllSet("file-source"), TRUE, AllSet("file-target")),
      ConfigFile("new", AllSet("file-source"), TRUE,
                 OnlySet("zendesk_subdomain", "file-target")),
      ConfigFile("old", AllSet("file-source"), FALSE, NoneSet) }

\* The variables that are set: ZENDESK_SOURCE_*, ZENDESK_TARGET_* and the
\* generic ZENDESK_*.
Environment(source, target, generic) ==
    [source |-> source, target |-> target, generic |-> generic]
NoEnvironment == Environment(NoneSet, NoneSet, NoneSet)
Environments ==
    { NoEnvironment,
      Environment(NoneSet, NoneSet, AllSet("env-generic")),
      Environment(AllSet("env-source"), NoneSet, NoneSet),
      Environment(NoneSet, AllSet("env-target"), NoneSet),
      Environment(NoneSet, OnlySet("zendesk_subdomain", "env-target"), NoneSet) }

VARIABLES
    \* ---- local archive: structure snapshot
    structure_exists,       \* os.path.exists(structure_path)
    categories_file,        \* state of structure/categories.json
    categories,             \* its content
    sections_file,          \* state of structure/sections.json
    sections,               \* its content
    \* ---- target instance
    tgt_categories,         \* categories on the target, in listing order
    tgt_sections,           \* sections on the target, in listing order
    \* ---- restore_structure locals
    rs_pc,                  \* position in restore_structure
    category_id_map,
    section_id_map,
    existing_categories,
    existing_categories_bound,  \* whether the local name is bound at all
    existing_sections,
    cat_i,                  \* next index of `for category in categories`
    sec_i,                  \* next index of `for section in sections`
    posts,                  \* create requests sent, in order
    rs_raised,              \* an exception left restore_structure
    rs_caught,              \* try blocks whose except clause ran
    create_failed,          \* source ids whose create call did not succeed
    faults,                 \* requests so far that did not end "ok"
    \* ---- local archive: articles
    body_files,             \* article id -> content of {id}.html
    metadata_files,         \* article id -> content of {id}.json
    \* ---- target instance
    tgt_articles,           \* article id on the target -> its section
    \* ---- restore_articles
    ra_pc,                  \* position in restore_articles
    fail_fast,
    queue,                  \* article ids as first read from the archive
    article_ids,            \* the local `article_ids` (the probe shortens it)
    art_i,                  \* next index of `for article_id in article_ids`
    valid_section_id,       \* section fallback
    restored_articles,
    calls,                  \* restore_article calls made, in order
    \* ---- fallback lookups
    tgt_permission_groups,  \* permission groups on the target, in listing order
    tgt_user_segments,      \* user segments on the target, in listing order
    cfg_section_id,         \* config['section_id']
    cfg_permission_group_id,
    cfg_user_segment_id,
    lk_pc,                  \* which lookup of lines 132-147 comes next
    valid_permission_group_id,
    valid_user_segment_id,
    lookups,                \* the lookups made, in order
    lk_raised,              \* an exception left a lookup
    \* ---- backup pass
    src_pages,              \* the source's article listing, page by page
    bk_pc,                  \* position in backup_articles
    page_i,                 \* page the listing `url` points at
    all_article_ids,        \* the local of get_public_article_ids
    list_requests,          \* the listing requests sent, in order
    bk_i,                   \* next index of `for article_id in article_ids`
    persisted,              \* ids whose {id}.html and {id}.json were written
    pulled,                 \* pull_article calls made, in order
    reported,               \* the "Backed up N articles" count
    \* ---- the run (__main__)
    mode,                   \* args.mode
    config_file,            \* config.json as load_config finds it
    environ,                \* the ZENDESK_* environment variables that are set
    config,                 \* what load_config returned: source and target
    archive_files,          \* names of the *.html files in the backup folder
    main_pc,                \* position in __main__
    exit_code,              \* exit status of the process, -1 while it runs
    uncaught,               \* exception that ended the run, "" if none
    source_called,          \* a request was sent to the source instance
    target_called,          \* a request was sent to the target instance
    \* ---- environment
    log,                    \* remote requests sent so far, in order
    fault_budget            \* requests of this run that may end other than "ok"

structure_vars ==
    <<structure_exists, categories_file, categories, sections_file, sections,
      tgt_categories, tgt_sections, rs_pc, category_id_map, section_id_map,
      existing_categories, existing_categories_bound, existing_sections,
      cat_i, sec_i, posts, rs_raised, rs_caught, create_failed, faults>>

\* What restore_structure leaves to the article pass (faults excepted).
structure_vars_fixed ==
    <<structure_exists, categories_file, categories, sections_file, sections,
      tgt_categories, tgt_sections, rs_pc, category_id_map, section_id_map,
      existing_categories, existing_categories_bound, existing_sections,
      cat_i, sec_i, posts, rs_raised, rs_caught, create_failed>>

article_vars ==
    <<body_files, metadata_files, tgt_articles, ra_pc, fail_fast, queue,
      article_ids, art_i, valid_section_id, restored_articles, calls>>

\* The article pass without the section fallback.
article_vars_kept ==
    <<body_files, metadata_files, tgt_articles, ra_pc, fail_fast, queue,
      article_ids, art_i, restored_articles, calls>>

\* What the lookups read.
lookup_env ==
    <<tgt_permission_groups, tgt_user_segments, cfg_section_id,
      cfg_permission_group_id, cfg_user_segment_id>>

lookup_vars ==
    <<lookup_env, lk_pc, valid_permission_group_id, valid_user_segment_id,
      lookups, lk_raised>>

backup_vars ==
    <<src_pages, bk_pc, page_i, all_article_ids, list_requests, bk_i, persisted,
      pulled, reported>>

main_vars ==
    <<mode, config_file, environ, config, archive_files, main_pc, exit_code,
      uncaught, source_called, target_called>>

\* What the restore pass never touches.
far_vars == <<backup_vars, main_vars>>

\* What neither restore_structure nor the article pass writes.
other_vars == <<fault_budget, lookup_vars, far_vars>>

vars == <<structure_vars, article_vars, log, other_vars>>

\* --------------------------------------------------------------- helpers
EmptyMap == [x \in {} |-> None]

\* d[k] = v
Put(d, k, v) == [x \in (DOMAIN d) \cup {k} |-> IF x = k THEN v ELSE d[x]]

Min(S) == CHOOSE x \in S : \A y \in S : x <= y
Max(S) == CHOOSE x \in S : \A y \in S : x >= y

\* Outcomes the environment may still give to a request.
Outcomes(all) == IF faults < fault_budget THEN all ELSE {"ok"}
Fault(o) == IF o = "ok" THEN 0 ELSE 1

\* Identifier the target assigns to an entity it creates.
FreshId(tc, ts) ==
    1 + Max({30} \cup {tc[k].id : k \in 1..Len(tc)}
                 \cup {ts[k].id : k \in 1..Len(ts)})

\* The inner `for existing in ...: if existing['name'].lower() == name.lower()`
\* loop with its break: index of the first match, 0 when there is none.
MatchIndex(existing, name) ==
    LET hits == {k \in 1..Len(existing) :
                    Lower(existing[k].name) = Lower(name)}
    IN IF hits = {} THEN 0 ELSE Min(hits)

\* `except Exception as e` of the categories block and of the sections block.
ExceptCategories(e) == TRUE
ExceptSections_NameErrorEscapes(e) == e # "UnboundLocalError"
ExceptSections(e) == TRUE


\* The orchestrator is not part of the run.
MainIdle ==
    /\ mode = "restore"
    /\ config_file = NoConfigFile
    /\ environ = NoEnvironment
    /\ config = [source |-> [zendesk_api_token |-> "", zendesk_user_email |-> "",
                             zendesk_subdomain |-> ""],
                 target |-> [zendesk_api_token |-> "", zendesk_user_email |-> "",
                             zendesk_subdomain |-> ""]]
    /\ archive_files = {}
    /\ main_pc = "idle"
    /\ exit_code = -1
    /\ uncaught = ""
    /\ source_called = FALSE
    /\ target_called = FALSE

\* No backup pass is part of the run.
BackupIdle ==
    /\ src_pages = <<>>
    /\ bk_pc = "idle"
    /\ page_i = 1
    /\ all_article_ids = <<>>
    /\ list_requests = <<>>
    /\ bk_i = 1
    /\ persisted = {}
    /\ pulled = <<>>
    /\ reported = None

FarIdle == BackupIdle /\ MainIdle

\* No lookup is part of the run.
LookupsIdle ==
    /\ tgt_permission_groups = <<>>
    /\ tgt_user_segments = <<>>
    /\ cfg_section_id = None
    /\ cfg_permission_group_id = None
    /\ cfg_user_segment_id = None
    /\ lk_pc = "idle"
    /\ valid_permission_group_id = None
    /\ valid_user_segment_id = None
    /\ lookups = <<>>
    /\ lk_raised = FALSE

\* ------------------------------------------------------ restore_structure
ListOutcomes == {"ok", "fail", "exc"}
CreateOutcomes == {"ok", "noid", "fail", "exc"}

\* An exception inside the categories try block (lines 319-369).
RaiseInCategories(e) ==
    IF ExceptCategories(e)
    THEN /\ rs_pc' = "load_sections"
         /\ rs_caught' = rs_caught \cup {"categories"}
         /\ rs_raised' = rs_raised
    ELSE /\ rs_pc' = "done"
         /\ rs_caught' = rs_caught
         /\ rs_raised' = TRUE

\* An exception inside the sections try block (lines 374-437).
RaiseInSections(e) ==
    IF ExceptSections(e)
    THEN /\ rs_pc' = "done"
         /\ rs_caught' = rs_caught \cup {"sections"}
         /\ rs_raised' = rs_raised
    ELSE /\ rs_pc' = "done"
         /\ rs_caught' = rs_caught
         /\ rs_raised' = TRUE

\* new_id = response.json().get('category' / 'section', {}).get('id')
ResponseId(o, created) == IF o = "ok" THEN created ELSE None

\* `if new_category_id:` guarding the creation of a section.
HasValidCategory_Unchecked(new_category_id) == TRUE
HasValidCategory(new_category_id) == new_category_id # None

\* The parent a section is created under: the mapped category, else the
\* first category the target listed, else nothing.  The second branch reads
\* existing_categories, a local bound only inside the categories block.
ReadsExistingCategories(section) == section.category_id \notin DOMAIN category_id_map

NewCategoryId(section) ==
    IF section.category_id \in DOMAIN category_id_map
    THEN category_id_map[section.category_id]
    ELSE IF Len(existing_categories) > 0
         THEN existing_categories[1].id
         ELSE None

\* Lines 302-314: no structure directory, nothing to restore.
RS_Start ==
    /\ UNCHANGED <<article_vars, other_vars>>
    /\ rs_pc = "start"
    /\ rs_pc' = IF structure_exists THEN "load_categories" ELSE "done"
    /\ UNCHANGED <<structure_exists, categories_file, categories, sections_file,
                   sections, tgt_categories, tgt_sections, category_id_map,
                   section_id_map, existing_categories, existing_categories_bound,
                   existing_sections, cat_i, sec_i, posts, rs_raised, rs_caught,
                   create_failed, faults, log>>

\* Lines 317-332: read categories.json, list the target's categories.
RS_LoadCategories ==
    /\ UNCHANGED <<article_vars, other_vars>>
    /\ rs_pc = "load_categories"
    /\ UNCHANGED <<structure_exists, categories_file, categories, sections_file,
                   sections, tgt_categories, tgt_sections, category_id_map,
                   section_id_map, existing_sections, cat_i, sec_i, posts,
                   create_failed>>
    /\ CASE categories_file = "missing" ->
              /\ rs_pc' = "load_sections"
              /\ UNCHANGED <<existing_categories, existing_categories_bound,
                             rs_raised, rs_caught, faults, log>>
         [] categories_file = "unreadable" ->
              /\ RaiseInCategories("OSError")
              /\ UNCHANGED <<existing_categories, existing_categories_bound, faults,
                             log>>
         [] OTHER ->
              \E o \in Outcomes(ListOutcomes) :
                 /\ faults' = faults + Fault(o)
                 /\ log' = Append(log, "list_categories")
                 /\ existing_categories_bound' = TRUE
                 /\ existing_categories' = IF o = "ok" THEN tgt_categories ELSE <<>>
                 /\ IF o = "exc"
                    THEN RaiseInCategories("ConnectionError")
                    ELSE /\ rs_pc' = IF Len(categories) = 0 THEN "load_sections"
                                                            ELSE "categories"
                         /\ UNCHANGED <<rs_raised, rs_caught>>

\* Lines 335-367: one iteration of `for category in categories`.
RS_Category ==
    /\ UNCHANGED <<article_vars, other_vars>>
    /\ rs_pc = "categories"
    /\ cat_i <= Len(categories)
    /\ UNCHANGED <<structure_exists, categories_file, categories, sections_file,
                   sections, tgt_sections, section_id_map, existing_categories,
                   existing_categories_bound, existing_sections, sec_i>>
    /\ LET category == categories[cat_i]
           old_id == category.id
           m == MatchIndex(existing_categories, category.name)
           after == IF cat_i + 1 > Len(categories) THEN "load_sections"
                                                   ELSE "categories"
       IN IF m # 0
          THEN /\ category_id_map' = Put(category_id_map, old_id, existing_categories[m].id)
               /\ cat_i' = cat_i + 1
               /\ rs_pc' = after
               /\ UNCHANGED <<tgt_categories, posts, rs_raised, rs_caught,
                              create_failed, faults, log>>
          ELSE \E o \in Outcomes(CreateOutcomes) :
                 LET created == FreshId(tgt_categories, tgt_sections)
                     new_id == ResponseId(o, created)
                 IN /\ faults' = faults + Fault(o)
                    /\ log' = Append(log, "create_category")
                    /\ posts' = Append(posts, [kind |-> "category", old_id |-> old_id,
                                               name |-> category.name, parent |-> None])
                    /\ tgt_categories' =
                          IF o \in {"ok", "noid"}
                          THEN Append(tgt_categories, [id |-> created, name |-> category.name])
                          ELSE tgt_categories
                    /\ category_id_map' =
                          IF o \in {"ok", "noid"}
                          THEN Put(category_id_map, old_id, new_id)
                          ELSE category_id_map
                    /\ create_failed' =
                          IF o \in {"fail", "exc"} THEN create_failed \cup {old_id}
                                                   ELSE create_failed
                    /\ IF o = "exc"
                       THEN /\ RaiseInCategories("ConnectionError")
                            /\ cat_i' = cat_i
                       ELSE /\ cat_i' = cat_i + 1
                            /\ rs_pc' = after
                            /\ UNCHANGED <<rs_raised, rs_caught>>

\* Lines 372-387: read sections.json, list the target's sections.
RS_LoadSections ==
    /\ UNCHANGED <<article_vars, other_vars>>
    /\ rs_pc = "load_sections"
    /\ UNCHANGED <<structure_exists, categories_file, categories, sections_file,
                   sections, tgt_categories, tgt_sections, category_id_map,
                   section_id_map, existing_categories, existing_categories_bound,
                   cat_i, sec_i, posts, create_failed>>
    /\ CASE sections_file = "missing" ->
              /\ rs_pc' = "done"
              /\ UNCHANGED <<existing_sections, rs_raised, rs_caught, faults, log>>
         [] sections_file = "unreadable" ->
              /\ RaiseInSections("OSError")
              /\ UNCHANGED <<existing_sections, faults, log>>
         [] OTHER ->
              \E o \in Outcomes(ListOutcomes) :
                 /\ faults' = faults + Fault(o)
                 /\ log' = Append(log, "list_sections")
                 /\ existing_sections' = IF o = "ok" THEN tgt_sections ELSE <<>>
                 /\ IF o = "exc"
                    THEN RaiseInSections("ConnectionError")
                    ELSE /\ rs_pc' = IF Len(sections) = 0 THEN "done" ELSE "sections"
                         /\ UNCHANGED <<rs_raised, rs_caught>>

\* Lines 390-435: one iteration of `for section in sections`.
RS_Section ==
    /\ UNCHANGED <<article_vars, other_vars>>
    /\ rs_pc = "sections"
    /\ sec_i <= Len(sections)
    /\ UNCHANGED <<structure_exists, categories_file, categories, sections_file,
                   sections, tgt_categories, category_id_map, existing_categories,
                   existing_categories_bound, existing_sections, cat_i>>
    /\ LET section == sections[sec_i]
           old_id == section.id
           after == IF sec_i + 1 > Len(sections) THEN "done" ELSE "sections"
       IN IF ReadsExistingCategories(section) /\ ~existing_categories_bound
          THEN \* line 399 reads a local that was never assigned
               /\ RaiseInSections("UnboundLocalError")
               /\ UNCHANGED <<tgt_sections, section_id_map, sec_i, posts,
                              create_failed, faults, log>>
          ELSE
          LET new_category_id == NewCategoryId(section)
              m == MatchIndex(existing_sections, section.name)
          IN IF m # 0
             THEN /\ section_id_map' = Put(section_id_map, old_id, existing_sections[m].id)
                  /\ sec_i' = sec_i + 1
                  /\ rs_pc' = after
                  /\ UNCHANGED <<tgt_sections, posts, rs_raised, rs_caught,
                                 create_failed, faults, log>>
             ELSE IF ~HasValidCategory(new_category_id)
             THEN /\ sec_i' = sec_i + 1
                  /\ rs_pc' = after
                  /\ UNCHANGED <<tgt_sections, section_id_map, posts, rs_raised,
                                 rs_caught, create_failed, faults, log>>
             ELSE \E o \in Outcomes(CreateOutcomes) :
                    LET created == FreshId(tgt_categories, tgt_sections)
                        new_id == ResponseId(o, created)
                    IN /\ faults' = faults + Fault(o)
                       /\ log' = Append(log, "create_section")
                       /\ posts' = Append(posts, [kind |-> "section", old_id |-> old_id,
                                                  name |-> section.name,
                                                  parent |-> new_category_id])
                       /\ tgt_sections' =
                             IF o \in {"ok", "noid"}
                             THEN Append(tgt_sections, [id |-> created, name |-> section.name])
                             ELSE tgt_sections
                       /\ section_id_map' =
                             IF o \in {"ok", "noid"}
                             THEN Put(section_id_map, old_id, new_id)
                             ELSE section_id_map
                       /\ create_failed' =
                             IF o \in {"fail", "exc"} THEN create_failed \cup {old_id}
                                                      ELSE create_failed
                       /\ IF o = "exc"
                          THEN /\ RaiseInSections("ConnectionError")
                               /\ sec_i' = sec_i
                          ELSE /\ sec_i' = sec_i + 1
                               /\ rs_pc' = after
                               /\ UNCHANGED <<rs_raised, rs_caught>>

InitStructure ==
    /\ structure_exists \in BOOLEAN
    /\ categories_file \in (IF structure_exists THEN FileStates ELSE {"missing"})
    /\ categories \in (IF categories_file = "ok" THEN CategorySnapshots ELSE {<<>>})
    /\ sections_file \in (IF structure_exists THEN FileStates ELSE {"missing"})
    /\ sections \in (IF sections_file = "ok" THEN SectionSnapshots ELSE {<<>>})
    /\ tgt_categories \in TargetCategoryListings
    /\ tgt_sections \in TargetSectionListings
    /\ tgt_sections # <<>> => tgt_categories # <<>>   \* a section has a category
    /\ rs_pc = "start"
    /\ category_id_map = EmptyMap
    /\ section_id_map = EmptyMap
    /\ existing_categories = <<>>
    /\ existing_categories_bound = FALSE
    /\ existing_sections = <<>>
    /\ cat_i = 1
    /\ sec_i = 1
    /\ posts = <<>>
    /\ rs_raised = FALSE
    /\ rs_caught = {}
    /\ create_failed = {}
    /\ faults = 0
    /\ body_files = EmptyMap
    /\ metadata_files = EmptyMap
    /\ tgt_articles = EmptyMap
    /\ ra_pc = "idle"
    /\ fail_fast = FALSE
    /\ queue = <<>>
    /\ article_ids = <<>>
    /\ art_i = 1
    /\ valid_section_id = None
    /\ restored_articles = <<>>
    /\ calls = <<>>
    /\ log = <<>>
    /\ fault_budget = MaxFaults
    /\ LookupsIdle
    /\ FarIdle

NextStructure ==
    \/ RS_Start
    \/ RS_LoadCategories
    \/ RS_Category
    \/ RS_LoadSections
    \/ RS_Section

SpecStructure == InitStructure /\ [][NextStructure]_vars


\* -------------------------------------------------------- restore_article
\* Section fallbacks and section maps a restore pass can hand over.
SectionFallbacks == {None, 77}
ArticleSectionMaps == {EmptyMap, Put(EmptyMap, 5, 55), Put(EmptyMap, 5, None)}
\* Articles the target holds before the pass, with their sections.
TargetArticleStates == {EmptyMap, Put(EmptyMap, 101, 77)}

\* metadata.get('title', f'Article {article_id}')
Title(metadata, article_id) ==
    IF metadata.title # NoTitle THEN metadata.title
    ELSE CASE article_id = 101 -> "Article 101"
           [] article_id = 102 -> "Article 102"
           [] OTHER -> "Article"

\* Lines 451-457: the mapped section of the metadata's section, else the fallback.
ResolveSection(metadata, fallback, map) ==
    IF DOMAIN map # {} /\ metadata.section_id \in DOMAIN map
    THEN map[metadata.section_id]
    ELSE fallback

\* Line 460: `if not section_id`.
SectionInvalid_Unchecked(section_id) == FALSE
SectionInvalid(section_id) == section_id = None

\* Lines 473-479: the payload of both the update and the create.
ArticlePayload_FlagsSwapped(title, content) ==
    [title |-> title, body |-> content, draft |-> TRUE, promoted |-> FALSE]
ArticlePayload(title, content) ==
    [title |-> title, body |-> content, draft |-> FALSE, promoted |-> TRUE]

\* Lines 468-485: permission group and user segment of the payload are the
\* fallbacks handed in; a fallback that is None adds no field.
AccessFields_FromMetadata(metadata, permission_group_id, user_segment_id) ==
    LET value == [f \in {"permission_group_id", "user_segment_id"} |->
                    IF f = "permission_group_id"
                    THEN (IF permission_group_id # None THEN permission_group_id
                          ELSE metadata.permission_group_id)
                    ELSE (IF user_segment_id # None THEN user_segment_id
                          ELSE metadata.user_segment_id)]
    IN [f \in {g \in DOMAIN value : value[g] # None} |-> value[f]]
AccessFields(metadata, permission_group_id, user_segment_id) ==
    LET value == [f \in {"permission_group_id", "user_segment_id"} |->
                    IF f = "permission_group_id" THEN permission_group_id
                                                 ELSE user_segment_id]
    IN [f \in {g \in DOMAIN value : value[g] # None} |-> value[f]]

NoPayload == [title |-> NoTitle, body |-> "", draft |-> FALSE, promoted |-> FALSE]

\* One request: article_id is the id in the URL (probe, update), section the
\* section in the URL (create); None where the URL does not carry it.
Request(method, api, article_id, section, payload) ==
    [method |-> method, api |-> api, article_id |-> article_id,
     section |-> section, payload |-> payload]

\* Identifier the target gives to an article it creates: its own choice.  It
\* is not told the archived id, so it either happens to reuse it or not.
NewArticleIds(article_id, tgt) ==
    ({article_id} \cup {1 + Max(ArticleIds \cup DOMAIN tgt)}) \ DOMAIN tgt

ArticleOutcomes == [p1 : ListOutcomes, p2 : ListOutcomes,
                    w1 : ListOutcomes, w2 : ListOutcomes]

\* What the caller sees of one request: the probe of an article the target
\* holds and a write the target accepts answer with a success status.
ProbeStatus(outcome, on_target) ==
    CASE outcome = "exc" -> "raised"
      [] outcome = "ok" /\ on_target -> "success"
      [] OTHER -> "failure"

WriteStatus(outcome) ==
    CASE outcome = "exc" -> "raised"
      [] outcome = "ok" -> "success"
      [] OTHER -> "failure"

\* Lines 509 and 533-540: the guide endpoint is tried when the standard write
\* did not return a success status.
WriteNeedsGuide_Always(status) == TRUE
WriteNeedsGuide(status) == status # "success"

\* Line 550: `except Exception as e` around every request of restore_article.
ExceptRestoreArticle_Reraises(e) == FALSE
ExceptRestoreArticle(e) == TRUE

\* restore_article (lines 441-552) on target state tgt; o gives the outcome
\* of the standard probe, the guide probe, the standard write and the guide
\* write, new_id the id the target assigns if it creates.  The result:
\*   raised   an exception left the function
\*   result   the boolean returned
\*   reqs     the requests sent, in order
\*   statuses what each of them came back with
\*   branch   "update", "create" or "none" when no write was reached
\*   placed   section the written article is in on the target afterwards
\*   used     the outcomes that were consumed
\*   tgt      the target's articles afterwards
RestoreArticle(article_id, content, metadata, fallback, permission_group_id, user_segment_id, map, tgt, o, new_id) ==
    LET section_id == ResolveSection(metadata, fallback, map)
        payload == ArticlePayload(Title(metadata, article_id), content)
                   @@ AccessFields(metadata, permission_group_id, user_segment_id)
        g1 == Request("GET", "help_center", article_id, None, NoPayload)
        g2 == Request("GET", "guide", article_id, None, NoPayload)
        u1 == Request("PUT", "help_center", article_id, None, payload)
        u2 == Request("PUT", "guide", article_id, None, payload)
        c1 == Request("POST", "help_center", None, section_id, payload)
        c2 == Request("POST", "guide", None, section_id, payload)
        on_target == article_id \in DOMAIN tgt
        s1 == ProbeStatus(o.p1, on_target)
        s2 == ProbeStatus(o.p2, on_target)
        exists1 == s1 = "success"
        exists2 == s2 = "success"
        probes == IF exists1 THEN <<g1>> ELSE <<g1, g2>>
        pstats == IF exists1 THEN <<s1>> ELSE <<s1, s2>>
        pused == IF exists1 THEN {"p1"} ELSE {"p1", "p2"}
        t1 == WriteStatus(o.w1)
        t2 == WriteStatus(o.w2)
        Ret(res, reqs, statuses, branch, placed, used, t) ==
            [raised |-> FALSE, result |-> res, reqs |-> reqs,
             statuses |-> statuses, branch |-> branch,
             placed |-> placed, used |-> used, tgt |-> t]
        \* a request raised: lines 550-552
        Exc(reqs, statuses, branch, used) ==
            IF ExceptRestoreArticle("RequestException")
            THEN Ret(FALSE, reqs, statuses, branch, None, used, tgt)
            ELSE [raised |-> TRUE, result |-> FALSE, reqs |-> reqs,
                  statuses |-> statuses, branch |-> branch,
                  placed |-> None, used |-> used, tgt |-> tgt]
    IN
    IF metadata.kind # "dict"
    THEN \* line 452, outside the try block
         [raised |-> TRUE, result |-> FALSE, reqs |-> <<>>, statuses |-> <<>>,
          branch |-> "none", placed |-> None, used |-> {}, tgt |-> tgt]
    ELSE IF SectionInvalid(section_id)
    THEN Ret(FALSE, <<>>, <<>>, "none", None, {}, tgt)
    ELSE IF s1 = "raised"
    THEN Exc(<<g1>>, <<s1>>, "none", {"p1"})
    ELSE IF ~exists1 /\ s2 = "raised"
    THEN Exc(<<g1, g2>>, <<s1, s2>>, "none", {"p1", "p2"})
    ELSE IF exists1 \/ exists2
    THEN \* lines 500-519
         IF t1 = "raised"
         THEN Exc(probes \o <<u1>>, pstats \o <<t1>>, "update", pused \cup {"w1"})
         ELSE IF ~WriteNeedsGuide(t1)
         THEN Ret(TRUE, probes \o <<u1>>, pstats \o <<t1>>, "update",
                  tgt[article_id], pused \cup {"w1"}, tgt)
         ELSE IF t2 = "raised"
         THEN Exc(probes \o <<u1, u2>>, pstats \o <<t1, t2>>, "update",
                  pused \cup {"w1", "w2"})
         ELSE IF t2 = "success"
         THEN Ret(TRUE, probes \o <<u1, u2>>, pstats \o <<t1, t2>>, "update",
                  tgt[article_id], pused \cup {"w1", "w2"}, tgt)
         ELSE Ret(FALSE, probes \o <<u1, u2>>, pstats \o <<t1, t2>>, "update",
                  None, pused \cup {"w1", "w2"}, tgt)
    ELSE \* lines 520-549
         IF t1 = "raised"
         THEN Exc(probes \o <<c1>>, pstats \o <<t1>>, "create", pused \cup {"w1"})
         ELSE IF ~WriteNeedsGuide(t1)
         THEN Ret(TRUE, probes \o <<c1>>, pstats \o <<t1>>, "create", section_id,
                  pused \cup {"w1"}, Put(tgt, new_id, section_id))
         ELSE IF t2 = "raised"
         THEN Exc(probes \o <<c1, c2>>, pstats \o <<t1, t2>>, "create",
                  pused \cup {"w1", "w2"})
         ELSE IF t2 = "success"
         THEN Ret(TRUE, probes \o <<c1, c2>>, pstats \o <<t1, t2>>, "create",
                  section_id, pused \cup {"w1", "w2"},
                  Put(tgt, new_id, section_id))
         ELSE Ret(FALSE, probes \o <<c1, c2>>, pstats \o <<t1, t2>>, "create",
                  None, pused \cup {"w1", "w2"}, tgt)

\* The outcome vectors the environment may give to one call: unused outcomes
\* are left "ok", and the faults stay within the budget of the run.
FaultsOf(o) == Fault(o.p1) + Fault(o.p2) + Fault(o.w1) + Fault(o.w2)
OutcomesWithin(budget) == {o \in ArticleOutcomes : FaultsOf(o) <= budget}

\* The requests of one restore_article call as they appear in the log.
RequestTags(reqs) ==
    [j \in 1..Len(reqs) |->
        IF reqs[j].method = "GET" THEN "probe_article" ELSE "write_article"]

CallRecord(article_id, r) ==
    [article_id |-> article_id, raised |-> r.raised, result |-> r.result,
     reqs |-> r.reqs, statuses |-> r.statuses, branch |-> r.branch,
     placed |-> r.placed]

\* ------------------------------------------------------- restore_articles
\* Line 175: `if not success` after the probe restore.
ProbeFailed_Ignored(success) == FALSE
ProbeFailed(success) == ~success

\* Lines 149-186: the fail-fast probe on the first queued article, or just
\* the empty result list when fail-fast is off.
RA_Probe ==
    /\ ra_pc = "probe"
    /\ UNCHANGED <<structure_vars_fixed, other_vars, body_files, metadata_files, fail_fast,
                   queue, art_i, valid_section_id>>
    /\ IF ~fail_fast
       THEN /\ restored_articles' = <<>>
            /\ ra_pc' = "loop"
            /\ UNCHANGED <<faults, tgt_articles, article_ids, calls, log>>
       ELSE
       LET test_article_id == article_ids[1]
           content == body_files[test_article_id]
           metadata == metadata_files[test_article_id]
       IN IF content = Unreadable \/ metadata.kind = "none"
          THEN \* open() raises (line 154 -> 182), or no metadata (line 158)
               /\ restored_articles' = <<>>
               /\ ra_pc' = "done"
               /\ UNCHANGED <<faults, tgt_articles, article_ids, calls, log>>
          ELSE \E o \in OutcomesWithin(fault_budget - faults), new_id \in NewArticleIds(test_article_id, tgt_articles) :
                 LET r == RestoreArticle(test_article_id, content, metadata,
                                         valid_section_id,
                                         valid_permission_group_id,
                                         valid_user_segment_id, section_id_map,
                                         tgt_articles, o, new_id)
                 IN /\ \A f \in {"p1", "p2", "w1", "w2"} : f \notin r.used => o[f] = "ok"
                    /\ r.tgt = tgt_articles => new_id = Min(NewArticleIds(test_article_id, tgt_articles))
                    /\ faults' = faults + FaultsOf(o)
                    /\ tgt_articles' = r.tgt
                    /\ calls' = Append(calls, CallRecord(test_article_id, r))
                    /\ log' = log \o RequestTags(r.reqs)
                    /\ IF r.raised \/ ProbeFailed(r.result)
                       THEN /\ restored_articles' = <<>>
                            /\ ra_pc' = "done"
                            /\ UNCHANGED article_ids
                       ELSE /\ article_ids' = Tail(article_ids)
                            /\ restored_articles' = <<test_article_id>>
                            /\ ra_pc' = "loop"

\* Lines 199, 220 and 226: `if fail_fast: ... break` after a failure.
BreakOnFailure_Never(ff) == FALSE
BreakOnFailure(ff) == ff

\* Lines 189-228: one iteration of `for article_id in article_ids`; the loop
\* ends (line 230) when the list is exhausted or fail-fast breaks out.
RA_Loop ==
    /\ ra_pc = "loop"
    /\ UNCHANGED <<structure_vars_fixed, other_vars, body_files, metadata_files, fail_fast,
                   queue, article_ids, valid_section_id>>
    /\ IF art_i > Len(article_ids)
       THEN /\ ra_pc' = "done"
            /\ UNCHANGED <<faults, tgt_articles, art_i, restored_articles, calls,
                           log>>
       ELSE
       LET article_id == article_ids[art_i]
           content == body_files[article_id]
           metadata == metadata_files[article_id]
           stop == IF BreakOnFailure(fail_fast) THEN "done" ELSE "loop"
       IN IF content = Unreadable \/ metadata.kind = "none"
          THEN \* open() raises (line 192 -> 224), or no metadata (line 197)
               /\ ra_pc' = stop
               /\ art_i' = art_i + 1
               /\ UNCHANGED <<faults, tgt_articles, restored_articles, calls, log>>
          ELSE \E o \in OutcomesWithin(fault_budget - faults), new_id \in NewArticleIds(article_id, tgt_articles) :
                 LET r == RestoreArticle(article_id, content, metadata,
                                         valid_section_id,
                                         valid_permission_group_id,
                                         valid_user_segment_id, section_id_map,
                                         tgt_articles, o, new_id)
                 IN /\ \A f \in {"p1", "p2", "w1", "w2"} : f \notin r.used => o[f] = "ok"
                    /\ r.tgt = tgt_articles => new_id = Min(NewArticleIds(article_id, tgt_articles))
                    /\ faults' = faults + FaultsOf(o)
                    /\ tgt_articles' = r.tgt
                    /\ calls' = Append(calls, CallRecord(article_id, r))
                    /\ log' = log \o RequestTags(r.reqs)
                    /\ art_i' = art_i + 1
                    /\ restored_articles' =
                          IF ~r.raised /\ r.result
                          THEN Append(restored_articles, article_id)
                          ELSE restored_articles
                    /\ ra_pc' = IF ~r.raised /\ r.result THEN "loop" ELSE stop

\* restore_articles at line 149: the archive is read, the structure is
\* reconciled and the fallbacks are resolved.
InitArticles ==
    /\ structure_exists = FALSE
    /\ categories_file = "missing"
    /\ categories = <<>>
    /\ sections_file = "missing"
    /\ sections = <<>>
    /\ tgt_categories = <<>>
    /\ tgt_sections = <<>>
    /\ rs_pc = "done"
    /\ category_id_map = EmptyMap
    /\ section_id_map \in ArticleSectionMaps
    /\ existing_categories = <<>>
    /\ existing_categories_bound = FALSE
    /\ existing_sections = <<>>
    /\ cat_i = 1
    /\ sec_i = 1
    /\ posts = <<>>
    /\ rs_raised = FALSE
    /\ rs_caught = {}
    /\ create_failed = {}
    /\ faults = 0
    /\ queue \in ArticleQueues
    /\ body_files \in [ArticleIds -> Bodies]
    /\ metadata_files \in [ArticleIds -> Metadatas]
    /\ \A id \in ArticleIds :      \* only queued articles have files
          (\A k \in 1..Len(queue) : queue[k] # id) =>
              body_files[id] = Unreadable /\ metadata_files[id] = NoMetadata
    /\ tgt_articles \in TargetArticleStates
    /\ ra_pc = "probe"
    /\ fail_fast \in BOOLEAN
    /\ article_ids = queue
    /\ art_i = 1
    /\ valid_section_id \in SectionFallbacks
    /\ restored_articles = <<>>
    /\ calls = <<>>
    /\ log = <<>>
    /\ fault_budget = MaxFaults
    /\ LookupsIdle
    /\ FarIdle

NextArticles ==
    \/ RA_Probe
    \/ RA_Loop

SpecArticles == InitArticles /\ [][NextArticles]_vars

\* restore_articles at line 188, the head of the main loop.  In fail-fast
\* mode the probe has succeeded: its article is on the target, heads the
\* result list and is no longer in article_ids.  calls and log record the
\* loop's own requests.
ProbedArticleId == Min(ArticleIds) - 1

InitLoop ==
    /\ structure_exists = FALSE
    /\ categories_file = "missing"
    /\ categories = <<>>
    /\ sections_file = "missing"
    /\ sections = <<>>
    /\ tgt_categories = <<>>
    /\ tgt_sections = <<>>
    /\ rs_pc = "done"
    /\ category_id_map = EmptyMap
    /\ section_id_map \in ArticleSectionMaps
    /\ existing_categories = <<>>
    /\ existing_categories_bound = FALSE
    /\ existing_sections = <<>>
    /\ cat_i = 1
    /\ sec_i = 1
    /\ posts = <<>>
    /\ rs_raised = FALSE
    /\ rs_caught = {}
    /\ create_failed = {}
    /\ faults = 0
    /\ fail_fast \in BOOLEAN
    /\ article_ids \in (IF fail_fast THEN SeqsUpTo(ArticleIds, MaxArticles)
                                     ELSE ArticleQueues)
    /\ queue = IF fail_fast THEN <<ProbedArticleId>> \o article_ids ELSE article_ids
    /\ body_files \in [ArticleIds -> Bodies]
    /\ metadata_files \in [ArticleIds -> Metadatas]
    /\ \A id \in ArticleIds :      \* only queued articles have files
          (\A k \in 1..Len(article_ids) : article_ids[k] # id) =>
              body_files[id] = Unreadable /\ metadata_files[id] = NoMetadata
    /\ \E t \in TargetArticleStates :
          tgt_articles = IF fail_fast
                         THEN Put(t, ProbedArticleId, Max(SectionFallbacks))
                         ELSE t
    /\ ra_pc = "loop"
    /\ art_i = 1
    /\ valid_section_id \in SectionFallbacks
    /\ restored_articles = IF fail_fast THEN <<ProbedArticleId>> ELSE <<>>
    /\ calls = <<>>
    /\ log = <<>>
    /\ fault_budget = MaxFaults
    /\ LookupsIdle
    /\ FarIdle

NextLoop == RA_Loop

SpecLoop == InitLoop /\ [][NextLoop]_vars

\* restore_articles at line 188 with one article queued, fail-fast off: the
\* permission group and the user segment the lookups resolved are whatever a
\* lookup can return, the first id of a listing or the configured default.
ResolvedPermissionGroupIds ==
    ConfiguredPermissionGroupIds
    \cup {l[1].id : l \in TargetPermissionGroupListings \ {<<>>}}
ResolvedUserSegmentIds ==
    ConfiguredUserSegmentIds
    \cup {l[1].id : l \in TargetUserSegmentListings \ {<<>>}}

InitPayload ==
    /\ structure_exists = FALSE
    /\ categories_file = "missing"
    /\ categories = <<>>
    /\ sections_file = "missing"
    /\ sections = <<>>
    /\ tgt_categories = <<>>
    /\ tgt_sections = <<>>
    /\ rs_pc = "done"
    /\ category_id_map = EmptyMap
    /\ section_id_map \in ArticleSectionMaps
    /\ existing_categories = <<>>
    /\ existing_categories_bound = FALSE
    /\ existing_sections = <<>>
    /\ cat_i = 1
    /\ sec_i = 1
    /\ posts = <<>>
    /\ rs_raised = FALSE
    /\ rs_caught = {}
    /\ create_failed = {}
    /\ faults = 0
    /\ fail_fast = FALSE
    /\ queue = <<Min(ArticleIds)>>
    /\ article_ids = queue
    /\ body_files \in [ArticleIds -> Bodies]
    /\ metadata_files \in [ArticleIds -> Metadatas]
    /\ \A id \in ArticleIds :
          IF id = queue[1]
          THEN body_files[id] # Unreadable /\ metadata_files[id].kind = "dict"
          ELSE body_files[id] = Unreadable /\ metadata_files[id] = NoMetadata
    /\ tgt_articles \in TargetArticleStates
    /\ ra_pc = "loop"
    /\ art_i = 1
    /\ valid_section_id \in SectionFallbacks
    /\ restored_articles = <<>>
    /\ calls = <<>>
    /\ log = <<>>
    /\ fault_budget = MaxFaults
    /\ tgt_permission_groups = <<>>
    /\ tgt_user_segments = <<>>
    /\ cfg_section_id = None
    /\ cfg_permission_group_id = None
    /\ cfg_user_segment_id = None
    /\ lk_pc = "done"
    /\ valid_permission_group_id \in ResolvedPermissionGroupIds
    /\ valid_user_segment_id \in ResolvedUserSegmentIds
    /\ lookups = <<>>
    /\ lk_raised = FALSE
    /\ FarIdle

NextPayload == RA_Loop

SpecPayload == InitPayload /\ [][NextPayload]_vars

\* -------------------------------------------------------- fallback lookups
LookupOutcomes == [std : ListOutcomes, guide : ListOutcomes]

\* What a listing request comes back with: it raised (the client, or the
\* parse of the body), a 200 with a non-empty list, a 200 with an empty
\* list, or another status.
ListStatus(outcome, listing) ==
    CASE outcome = "exc" -> "raised"
      [] outcome = "ok" /\ listing # <<>> -> "usable"
      [] outcome = "ok" -> "empty"
      [] OTHER -> "failure"

\* Lines 31-33, 70-72, 113-115: the guide endpoint is queried after a standard
\* answer that gave nothing usable; a raise goes to the except clause instead.
GuideAfter_Never(status) == FALSE
GuideAfter(status) == status \in {"empty", "failure"}

\* Lines 43, 83, 130: `except Exception as e`.
ExceptLookup_Reraises(e) == FALSE
ExceptLookup(e) == TRUE

\* sections[0]['id'], groups[0]['id']
FirstId_Last(listing) == listing[Len(listing)].id
FirstId(listing) == listing[1].id

\* Lines 108-111: the first segment named everyone / all / signed-in users,
\* else the first segment.
PreferredSegmentNames == {"everyone", "all", "signed-in users"}
PreferredSegmentId_First(listing) == listing[1].id
PreferredSegmentId(listing) ==
    LET hits == {k \in 1..Len(listing) :
                    Lower(listing[k].name) \in PreferredSegmentNames}
    IN IF hits = {} THEN listing[1].id ELSE listing[Min(hits)].id

\* What a lookup returns from a non-empty list.
PickId(pick, listing) ==
    IF pick = "preferred" THEN PreferredSegmentId(listing) ELSE FirstId(listing)

\* The shape the three lookups share.  The result:
\*   raised    an exception left the function
\*   result    the identifier returned
\*   from      "standard", "guide" or "default"
\*   queried   the endpoints queried, in order
\*   statuses  what each of them came back with
FallbackLookup(listing, default, o, pick) ==
    LET s1 == ListStatus(o.std, listing)
        s2 == ListStatus(o.guide, listing)
        Ret(result, from, queried, statuses) ==
            [raised |-> FALSE, result |-> result, from |-> from,
             queried |-> queried, statuses |-> statuses]
        Exc(queried, statuses) ==
            IF ExceptLookup("RequestException")
            THEN Ret(default, "default", queried, statuses)
            ELSE [raised |-> TRUE, result |-> None, from |-> "default",
                  queried |-> queried, statuses |-> statuses]
    IN IF s1 = "usable"
       THEN Ret(PickId(pick, listing), "standard", <<"standard">>, <<s1>>)
       ELSE IF s1 = "raised"
       THEN Exc(<<"standard">>, <<s1>>)
       ELSE IF ~GuideAfter(s1)
       THEN Ret(default, "default", <<"standard">>, <<s1>>)
       ELSE IF s2 = "usable"
       THEN Ret(PickId(pick, listing), "guide", <<"standard", "guide">>, <<s1, s2>>)
       ELSE IF s2 = "raised"
       THEN Exc(<<"standard", "guide">>, <<s1, s2>>)
       ELSE Ret(default, "default", <<"standard", "guide">>, <<s1, s2>>)

\* get_valid_section_id (lines 11-45)
GetValidSectionId(listing, section_id, o) ==
    FallbackLookup(listing, section_id, o, "first")

\* get_permission_groups (lines 47-85)
GetPermissionGroups(listing, default_permission_group_id, o) ==
    FallbackLookup(listing, default_permission_group_id, o, "first")

\* get_user_segments (lines 87-132)
GetUserSegments(listing, default_user_segment_id, o) ==
    FallbackLookup(listing, default_user_segment_id, o, "preferred")

\* Outcome pairs within the budget; the outcome of a request that is not
\* sent is left "ok".
LookupOutcomesFor(listing, default) ==
    {o \in LookupOutcomes :
        /\ Fault(o.std) + Fault(o.guide) <= fault_budget - faults
        /\ Len(FallbackLookup(listing, default, o, "first").queried) = 1 =>
              o.guide = "ok"}

LookupRecord(name, default, r) ==
    [lookup |-> name, default |-> default, raised |-> r.raised,
     result |-> r.result, from |-> r.from, queried |-> r.queried,
     statuses |-> r.statuses]

LookupTags(name, r) == [j \in 1..Len(r.queried) |-> name]

\* backup.py lines 132-137: valid_section_id = get_valid_section_id(...)
LK_Section ==
    /\ lk_pc = "section"
    /\ UNCHANGED <<structure_vars_fixed, article_vars_kept, fault_budget, lookup_env,
                   far_vars,
                   valid_permission_group_id, valid_user_segment_id>>
    /\ \E o \in LookupOutcomesFor(tgt_sections, cfg_section_id) :
          LET r == GetValidSectionId(tgt_sections, cfg_section_id, o)
          IN /\ faults' = faults + Fault(o.std) + Fault(o.guide)
             /\ log' = log \o LookupTags("lookup_sections", r)
             /\ lookups' = Append(lookups, LookupRecord("section", cfg_section_id, r))
             /\ valid_section_id' = r.result
             /\ lk_raised' = (lk_raised \/ r.raised)
             /\ lk_pc' = IF r.raised THEN "done" ELSE "permission"

\* backup.py lines 138-142: valid_permission_group_id = get_permission_groups(...)
LK_PermissionGroups ==
    /\ lk_pc = "permission"
    /\ UNCHANGED <<structure_vars_fixed, article_vars_kept, fault_budget, lookup_env,
                   far_vars,
                   valid_section_id, valid_user_segment_id>>
    /\ \E o \in LookupOutcomesFor(tgt_permission_groups, cfg_permission_group_id) :
          LET r == GetPermissionGroups(tgt_permission_groups, cfg_permission_group_id, o)
          IN /\ faults' = faults + Fault(o.std) + Fault(o.guide)
             /\ log' = log \o LookupTags("lookup_permission_groups", r)
             /\ lookups' = Append(lookups, LookupRecord("permission", cfg_permission_group_id, r))
             /\ valid_permission_group_id' = r.result
             /\ lk_raised' = (lk_raised \/ r.raised)
             /\ lk_pc' = IF r.raised THEN "done" ELSE "segment"

\* backup.py lines 143-147: valid_user_segment_id = get_user_segments(...)
LK_UserSegments ==
    /\ lk_pc = "segment"
    /\ UNCHANGED <<structure_vars_fixed, article_vars_kept, fault_budget, lookup_env,
                   far_vars,
                   valid_section_id, valid_permission_group_id>>
    /\ \E o \in LookupOutcomesFor(tgt_user_segments, cfg_user_segment_id) :
          LET r == GetUserSegments(tgt_user_segments, cfg_user_segment_id, o)
          IN /\ faults' = faults + Fault(o.std) + Fault(o.guide)
             /\ log' = log \o LookupTags("lookup_user_segments", r)
             /\ lookups' = Append(lookups, LookupRecord("segment", cfg_user_segment_id, r))
             /\ valid_user_segment_id' = r.result
             /\ lk_raised' = (lk_raised \/ r.raised)
             /\ lk_pc' = "done"

\* restore_articles at line 132: the structure is reconciled, the three
\* lookups are about to run against the target.
InitLookups ==
    /\ structure_exists = FALSE
    /\ categories_file = "missing"
    /\ categories = <<>>
    /\ sections_file = "missing"
    /\ sections = <<>>
    /\ tgt_categories \in TargetCategoryListings
    /\ tgt_sections \in TargetSectionListings
    /\ tgt_sections # <<>> => tgt_categories # <<>>
    /\ rs_pc = "done"
    /\ category_id_map = EmptyMap
    /\ section_id_map = EmptyMap
    /\ existing_categories = <<>>
    /\ existing_categories_bound = FALSE
    /\ existing_sections = <<>>
    /\ cat_i = 1
    /\ sec_i = 1
    /\ posts = <<>>
    /\ rs_raised = FALSE
    /\ rs_caught = {}
    /\ create_failed = {}
    /\ faults = 0
    /\ body_files = EmptyMap
    /\ metadata_files = EmptyMap
    /\ tgt_articles = EmptyMap
    /\ ra_pc = "lookups"
    /\ fail_fast = FALSE
    /\ queue = <<>>
    /\ article_ids = <<>>
    /\ art_i = 1
    /\ valid_section_id = None
    /\ restored_articles = <<>>
    /\ calls = <<>>
    /\ log = <<>>
    /\ fault_budget = MaxFaults
    /\ tgt_permission_groups \in TargetPermissionGroupListings
    /\ tgt_user_segments \in TargetUserSegmentListings
    /\ cfg_section_id \in ConfiguredSectionIds
    /\ cfg_permission_group_id \in ConfiguredPermissionGroupIds
    /\ cfg_user_segment_id \in ConfiguredUserSegmentIds
    /\ lk_pc = "section"
    /\ valid_permission_group_id = None
    /\ valid_user_segment_id = None
    /\ lookups = <<>>
    /\ lk_raised = FALSE
    /\ FarIdle

NextLookups ==
    \/ LK_Section
    \/ LK_PermissionGroups
    \/ LK_UserSegments

SpecLookups == InitLookups /\ [][NextLookups]_vars

\* -------------------------------------------------- the whole restore pass
\* Archives and targets a whole pass is run on.
PassCategories ==
    { <<[id |-> SourceCategoryId(1), name |-> "faq"]>>,
      <<[id |-> SourceCategoryId(1), name |-> "faq"],
        [id |-> SourceCategoryId(2), name |-> "News"]>> }

PassSections ==
    { <<[id |-> SourceSectionId(1), name |-> "faq",
         category_id |-> SourceCategoryId(1)]>>,
      <<[id |-> SourceSectionId(1), name |-> "faq",
         category_id |-> SourceCategoryId(1)],
        [id |-> SourceSectionId(2), name |-> "News",
         category_id |-> SourceCategoryId(2)]>> }

PassQueues == { <<>>, <<101>>, <<101, 102>> }

PassMetadata(article_id) ==
    [kind |-> "dict", title |-> "Hi",
     section_id |-> IF article_id = 101 THEN SourceSectionId(1)
                                        ELSE SourceSectionId(2),
     permission_group_id |-> StoredPermissionGroupId,
     user_segment_id |-> StoredUserSegmentId]

\* Line 115: `if not article_ids`.
NoArticles_Ignored(ids) == FALSE
NoArticles(ids) == ids = <<>>

\* Lines 113-121: the article ids of the archive; without any the pass ends,
\* otherwise restore_structure is called.
RA_Begin ==
    /\ ra_pc = "begin"
    /\ UNCHANGED <<structure_exists, categories_file, categories, sections_file,
                   sections, tgt_categories, tgt_sections, category_id_map,
                   section_id_map, existing_categories, existing_categories_bound,
                   existing_sections, cat_i, sec_i, posts, rs_raised, rs_caught,
                   create_failed, faults, log, other_vars>>
    /\ UNCHANGED <<body_files, metadata_files, tgt_articles, fail_fast, queue,
                   art_i, valid_section_id, calls>>
    /\ article_ids' = queue
    /\ restored_articles' = <<>>
    /\ IF NoArticles(queue)
       THEN ra_pc' = "done" /\ UNCHANGED rs_pc
       ELSE ra_pc' = "structure" /\ rs_pc' = "start"

\* Lines 123-129: restore_structure has returned its two maps.
StructureReturned_Early == TRUE
StructureReturned == rs_pc = "done"

RA_StructureDone ==
    /\ ra_pc = "structure"
    /\ StructureReturned
    /\ ra_pc' = "lookups"
    /\ lk_pc' = "section"
    /\ UNCHANGED <<structure_vars, body_files, metadata_files, tgt_articles,
                   fail_fast, queue, article_ids, art_i, valid_section_id,
                   restored_articles, calls, log, fault_budget, lookup_env,
                   valid_permission_group_id, valid_user_segment_id, lookups,
                   lk_raised, far_vars>>

\* Line 147: the last lookup has returned.
RA_LookupsDone ==
    /\ ra_pc = "lookups"
    /\ lk_pc = "done"
    /\ ra_pc' = "probe"
    /\ UNCHANGED <<structure_vars, body_files, metadata_files, tgt_articles,
                   fail_fast, queue, article_ids, art_i, valid_section_id,
                   restored_articles, calls, log, other_vars>>

InitPass ==
    /\ structure_exists \in BOOLEAN
    /\ categories_file \in (IF structure_exists THEN {"missing", "ok"} ELSE {"missing"})
    /\ categories \in (IF categories_file = "ok" THEN PassCategories ELSE {<<>>})
    /\ sections_file = IF structure_exists THEN "ok" ELSE "missing"
    /\ sections \in (IF sections_file = "ok" THEN PassSections ELSE {<<>>})
    /\ categories_file = "ok" => Len(sections) = Len(categories)
    /\ tgt_categories \in TargetCategoryListings
    /\ tgt_sections \in TargetSectionListings
    /\ Len(tgt_sections) = Len(tgt_categories)
    /\ rs_pc = "idle"
    /\ category_id_map = EmptyMap
    /\ section_id_map = EmptyMap
    /\ existing_categories = <<>>
    /\ existing_categories_bound = FALSE
    /\ existing_sections = <<>>
    /\ cat_i = 1
    /\ sec_i = 1
    /\ posts = <<>>
    /\ rs_raised = FALSE
    /\ rs_caught = {}
    /\ create_failed = {}
    /\ faults = 0
    /\ queue \in PassQueues
    /\ body_files = [id \in ArticleIds |-> CHOOSE b \in Bodies : b # Unreadable]
    /\ metadata_files = [id \in ArticleIds |-> PassMetadata(id)]
    /\ tgt_articles = EmptyMap
    /\ ra_pc = "begin"
    /\ fail_fast \in BOOLEAN
    /\ article_ids = <<>>
    /\ art_i = 1
    /\ valid_section_id = None
    /\ restored_articles = <<>>
    /\ calls = <<>>
    /\ log = <<>>
    /\ fault_budget = PassFaults
    /\ tgt_permission_groups = <<>>
    /\ tgt_user_segments = <<>>
    /\ cfg_section_id = Max(ConfiguredSectionIds)
    /\ cfg_permission_group_id = None
    /\ cfg_user_segment_id = None
    /\ lk_pc = "idle"
    /\ valid_permission_group_id = None
    /\ valid_user_segment_id = None
    /\ lookups = <<>>
    /\ lk_raised = FALSE
    /\ FarIdle

NextPass ==
    \/ RA_Begin
    \/ RS_Start
    \/ RS_LoadCategories
    \/ RS_Category
    \/ RS_LoadSections
    \/ RS_Section
    \/ RA_StructureDone
    \/ LK_Section
    \/ LK_PermissionGroups
    \/ LK_UserSegments
    \/ RA_LookupsDone
    \/ RA_Probe
    \/ RA_Loop

SpecPass == InitPass /\ [][NextPass]_vars

\* ------------------------------------------------------------ backup pass
\* One listed article.
Listed(id, draft) == [id |-> id, draft |-> draft]

\* Article listings of the source: pages chained by next_page.
SourceListings ==
    { << <<>> >>,
      << <<Listed(101, FALSE)>> >>,
      << <<Listed(101, TRUE)>> >>,
      << <<Listed(101, FALSE), Listed(102, TRUE)>> >>,
      << <<Listed(101, FALSE), Listed(102, FALSE)>> >>,
      << <<Listed(101, FALSE)>>, <<Listed(102, FALSE)>> >>,
      << <<Listed(101, TRUE)>>, <<Listed(102, FALSE)>> >> }

\* [article['id'] for article in articles if article['draft'] is False]
PublicIds_WithDrafts(page) == [k \in 1..Len(page) |-> page[k].id]
PublicIds(page) ==
    LET public == SelectSeq(page, LAMBDA a : ~a.draft)
    IN [k \in 1..Len(public) |-> public[k].id]

\* One request of a listing loop (lines 214-225 and 230-241): the ids so far
\* and where the loop stands afterwards: "next" page, "end" of the listing
\* (no next_page), "break" on a non-success status, "raised".
ListPage_IgnoresFailure(ids, pages, i, outcome) ==
    CASE outcome = "exc" -> [ids |-> ids, at |-> "raised"]
      [] outcome = "fail" -> [ids |-> ids,
                              at |-> IF i < Len(pages) THEN "next" ELSE "end"]
      [] OTHER -> [ids |-> ids \o PublicIds(pages[i]),
                   at |-> IF i < Len(pages) THEN "next" ELSE "end"]
ListPage(ids, pages, i, outcome) ==
    CASE outcome = "exc" -> [ids |-> ids, at |-> "raised"]
      [] outcome = "fail" -> [ids |-> ids, at |-> "break"]
      [] OTHER -> [ids |-> ids \o PublicIds(pages[i]),
                   at |-> IF i < Len(pages) THEN "next" ELSE "end"]

\* One listing request as the history keeps it: the endpoint, the page asked
\* for and what came back.
ListRequest(api, i, outcome) ==
    [api |-> api, page |-> i,
     status |-> CASE outcome = "exc" -> "raised"
                  [] outcome = "fail" -> "failure"
                  [] OTHER -> "success"]

\* Line 228: `if not all_article_ids` before the guide listing.
GuideListingNeeded(ids) == ids = <<>>

\* get_public_article_ids, lines 213-225: one request of the standard listing.
BK_ListStandard ==
    /\ bk_pc = "list_standard"
    /\ UNCHANGED <<structure_vars_fixed, article_vars, fault_budget, lookup_vars,
                   main_vars,
                   src_pages, bk_i, persisted, pulled, reported>>
    /\ \E o \in Outcomes(ListOutcomes) :
          LET r == ListPage(all_article_ids, src_pages, page_i, o)
          IN /\ faults' = faults + Fault(o)
             /\ log' = Append(log, "list_articles")
             /\ all_article_ids' = r.ids
             /\ list_requests' = Append(list_requests, ListRequest("standard", page_i, o))
             /\ page_i' = IF r.at = "next" THEN page_i + 1 ELSE 1
             /\ bk_pc' = CASE r.at = "next" -> "list_standard"
                           [] r.at = "raised" -> "pull"
                           [] OTHER -> IF GuideListingNeeded(r.ids)
                                       THEN "list_guide" ELSE "pull"

\* get_public_article_ids, lines 229-241: one request of the guide listing.
BK_ListGuide ==
    /\ bk_pc = "list_guide"
    /\ UNCHANGED <<structure_vars_fixed, article_vars, fault_budget, lookup_vars,
                   main_vars,
                   src_pages, bk_i, persisted, pulled, reported>>
    /\ \E o \in Outcomes(ListOutcomes) :
          LET r == ListPage(all_article_ids, src_pages, page_i, o)
          IN /\ faults' = faults + Fault(o)
             /\ log' = Append(log, "list_articles")
             /\ all_article_ids' = r.ids
             /\ list_requests' = Append(list_requests, ListRequest("guide", page_i, o))
             /\ page_i' = IF r.at = "next" THEN page_i + 1 ELSE 1
             /\ bk_pc' = IF r.at = "next" THEN "list_guide" ELSE "pull"

PullOutcomes == [std : ListOutcomes, guide : ListOutcomes]

\* pull_article (lines 248-294) for an article the source holds: the boolean
\* returned, whether body and metadata were written, the requests sent.
PullArticle(article_id, o) ==
    CASE o.std = "ok" -> [result |-> TRUE, written |-> TRUE, sent |-> 1]
      [] o.std = "exc" -> [result |-> FALSE, written |-> FALSE, sent |-> 1]
      [] o.guide = "ok" -> [result |-> TRUE, written |-> TRUE, sent |-> 2]
      [] OTHER -> [result |-> FALSE, written |-> FALSE, sent |-> 2]

\* What the requests of one pull_article call came back with, in order.
PullStatuses(o, sent) ==
    [j \in 1..sent |-> WriteStatus(IF j = 1 THEN o.std ELSE o.guide)]

\* Lines 271-288: the two files pull_article writes for an article.
FileName(article_id) == IF article_id = 101 THEN "101.html" ELSE "102.html"
PulledBody == CHOOSE b \in Bodies : b # Unreadable
PulledMetadata(article_id) ==
    [kind |-> "dict", title |-> "Hi", section_id |-> SourceSectionId(1),
     permission_group_id |-> StoredPermissionGroupId,
     user_segment_id |-> StoredUserSegmentId]

\* backup.py lines 96-103: one iteration of `for article_id in article_ids`;
\* the value pull_article returns is not used.
BK_Pull ==
    /\ bk_pc = "pull"
    /\ bk_i <= Len(all_article_ids)
    /\ UNCHANGED <<structure_vars_fixed, tgt_articles, ra_pc, fail_fast, queue,
                   article_ids, art_i, valid_section_id, restored_articles, calls,
                   fault_budget, lookup_vars,
                   mode, config_file, environ, config, main_pc, exit_code, uncaught,
                   source_called, target_called,
                   src_pages, bk_pc, page_i, all_article_ids, list_requests,
                   reported>>
    /\ \E o \in PullOutcomes :
          LET article_id == all_article_ids[bk_i]
              r == PullArticle(article_id, o)
          IN /\ Fault(o.std) + Fault(o.guide) <= fault_budget - faults
             /\ r.sent = 1 => o.guide = "ok"
             /\ faults' = faults + Fault(o.std) + Fault(o.guide)
             /\ log' = log \o [j \in 1..r.sent |-> "pull_article"]
             /\ persisted' = IF r.written THEN persisted \cup {article_id}
                                          ELSE persisted
             /\ IF r.written
                THEN /\ body_files' = Put(body_files, article_id, PulledBody)
                     /\ metadata_files' = Put(metadata_files, article_id,
                                              PulledMetadata(article_id))
                     /\ archive_files' = archive_files \cup {FileName(article_id)}
                ELSE UNCHANGED <<body_files, metadata_files, archive_files>>
             /\ pulled' = Append(pulled, [article_id |-> article_id,
                                          result |-> r.result,
                                          statuses |-> PullStatuses(o, r.sent)])
             /\ bk_i' = bk_i + 1

\* backup.py line 105 and lines 266-267: backup_articles returns article_ids
\* and the run prints its length as the number of backed-up articles.
BackedUpCount(ids, results) == Len(ids)

BK_Report ==
    /\ bk_pc = "pull"
    /\ bk_i > Len(all_article_ids)
    /\ UNCHANGED <<structure_vars, article_vars, log, fault_budget, lookup_vars,
                   main_vars, src_pages, page_i, all_article_ids, list_requests,
                   bk_i, persisted, pulled>>
    /\ reported' = BackedUpCount(all_article_ids, pulled)
    /\ bk_pc' = "done"

\* backup_articles at line 92: the structure snapshot is written, the
\* listing of the source's articles is about to start.
InitBackup ==
    /\ structure_exists = FALSE
    /\ categories_file = "missing"
    /\ categories = <<>>
    /\ sections_file = "missing"
    /\ sections = <<>>
    /\ tgt_categories = <<>>
    /\ tgt_sections = <<>>
    /\ rs_pc = "idle"
    /\ category_id_map = EmptyMap
    /\ section_id_map = EmptyMap
    /\ existing_categories = <<>>
    /\ existing_categories_bound = FALSE
    /\ existing_sections = <<>>
    /\ cat_i = 1
    /\ sec_i = 1
    /\ posts = <<>>
    /\ rs_raised = FALSE
    /\ rs_caught = {}
    /\ create_failed = {}
    /\ faults = 0
    /\ body_files = EmptyMap
    /\ metadata_files = EmptyMap
    /\ tgt_articles = EmptyMap
    /\ ra_pc = "idle"
    /\ fail_fast = FALSE
    /\ queue = <<>>
    /\ article_ids = <<>>
    /\ art_i = 1
    /\ valid_section_id = None
    /\ restored_articles = <<>>
    /\ calls = <<>>
    /\ log = <<>>
    /\ fault_budget = PassFaults
    /\ LookupsIdle
    /\ src_pages \in SourceListings
    /\ bk_pc = "list_standard"
    /\ page_i = 1
    /\ all_article_ids = <<>>
    /\ list_requests = <<>>
    /\ bk_i = 1
    /\ persisted = {}
    /\ pulled = <<>>
    /\ reported = None
    /\ MainIdle

NextBackup ==
    \/ BK_ListStandard
    \/ BK_ListGuide
    \/ BK_Pull
    \/ BK_Report

SpecBackup == InitBackup /\ [][NextBackup]_vars

\* The interpreter runs the pass to its end: a step that can be taken is taken.
SpecBackupFair == SpecBackup /\ WF_vars(NextBackup)

\* ------------------------------------------------------- the run (__main__)
Modes == {"backup", "restore", "both"}

\* The three credentials of one instance; "" is a field that is not set.
Credentials ==
    [zendesk_api_token : {"", "token"},
     zendesk_user_email : {"", "me@example.com"},
     zendesk_subdomain : {"", "acme"}]

\* load_config lines 100-108: a target field that is empty takes the source's.
LoadedConfigs ==
    {c \in [source : Credentials, target : Credentials] :
        \A f \in CredentialFields : c.target[f] = "" => c.source[f] = ""}

\* validate_config (lines 11-49)
ValidateConfig(cfg, m) ==
    /\ m \in {"backup", "both"} =>
          \A f \in CredentialFields : cfg.source[f] # ""
    /\ m \in {"restore", "both"} =>
          \A f \in CredentialFields : cfg.target[f] # ""

\* *.html files a backup folder can hold: bodies written by pull_article,
\* and one that something else put there.
ArchiveListings == { {}, {"101.html"}, {"101.html", "notes.html"} }

\* int(file.split('.')[0]) succeeds
NumericStem(file) == file \in {"101.html", "102.html"}

\* get_article_ids_from_backup (lines 59-61): "ok", or the exception of int().
ArticleIdsFromBackup(files) ==
    IF \A f \in files : NumericStem(f) THEN "ok" ELSE "ValueError"

\* Lines 257-258.
Main_Validate ==
    /\ main_pc = "validate"
    /\ UNCHANGED <<structure_vars, article_vars, log, fault_budget, lookup_vars,
                   backup_vars, mode, config_file, environ, config, archive_files,
                   uncaught, source_called, target_called>>
    /\ IF ValidateConfig(config, mode)
       THEN main_pc' = "backup" /\ UNCHANGED exit_code
       ELSE main_pc' = "exited" /\ exit_code' = 1

\* Lines 264-267: the backup pass as a whole.  It sends requests to the
\* source and may add article bodies to the backup folder.
Main_Backup ==
    /\ main_pc = "backup"
    /\ UNCHANGED <<structure_vars, article_vars, log, fault_budget, lookup_vars,
                   backup_vars, mode, config_file, environ, config, exit_code,
                   uncaught, target_called>>
    /\ main_pc' = "restore"
    /\ IF mode \in {"backup", "both"}
       THEN /\ source_called' = TRUE
            /\ \E written \in {{}, {"101.html"}, {"101.html", "102.html"}} :
                  archive_files' = archive_files \cup written
       ELSE UNCHANGED <<source_called, archive_files>>

\* Lines 269-272: the restore pass as a whole.  The listing of the backup
\* folder is outside every try block; an empty folder ends the pass before
\* any request.
Main_Restore ==
    /\ main_pc = "restore"
    /\ UNCHANGED <<structure_vars, article_vars, log, fault_budget, lookup_vars,
                   backup_vars, mode, config_file, environ, config, archive_files,
                   source_called>>
    /\ IF mode \notin {"restore", "both"}
       THEN /\ main_pc' = "end"
            /\ UNCHANGED <<exit_code, uncaught, target_called>>
       ELSE IF ArticleIdsFromBackup(archive_files) # "ok"
       THEN /\ uncaught' = ArticleIdsFromBackup(archive_files)
            /\ exit_code' = 1
            /\ main_pc' = "exited"
            /\ UNCHANGED target_called
       ELSE /\ target_called' = (archive_files # {})
            /\ main_pc' = "end"
            /\ UNCHANGED <<exit_code, uncaught>>

\* The script ends after line 272.
Main_End ==
    /\ main_pc = "end"
    /\ UNCHANGED <<structure_vars, article_vars, log, fault_budget, lookup_vars,
                   backup_vars, mode, config_file, environ, config, archive_files,
                   uncaught, source_called, target_called>>
    /\ exit_code' = 0
    /\ main_pc' = "exited"

\* __main__ at line 257: the configuration is loaded, the arguments parsed.
InitMain ==
    /\ structure_exists = FALSE
    /\ categories_file = "missing"
    /\ categories = <<>>
    /\ sections_file = "missing"
    /\ sections = <<>>
    /\ tgt_categories = <<>>
    /\ tgt_sections = <<>>
    /\ rs_pc = "idle"
    /\ category_id_map = EmptyMap
    /\ section_id_map = EmptyMap
    /\ existing_categories = <<>>
    /\ existing_categories_bound = FALSE
    /\ existing_sections = <<>>
    /\ cat_i = 1
    /\ sec_i = 1
    /\ posts = <<>>
    /\ rs_raised = FALSE
    /\ rs_caught = {}
    /\ create_failed = {}
    /\ faults = 0
    /\ body_files = EmptyMap
    /\ metadata_files = EmptyMap
    /\ tgt_articles = EmptyMap
    /\ ra_pc = "idle"
    /\ fail_fast = FALSE
    /\ queue = <<>>
    /\ article_ids = <<>>
    /\ art_i = 1
    /\ valid_section_id = None
    /\ restored_articles = <<>>
    /\ calls = <<>>
    /\ log = <<>>
    /\ fault_budget = MaxFaults
    /\ LookupsIdle
    /\ BackupIdle
    /\ mode \in Modes
    /\ config_file = NoConfigFile
    /\ environ = NoEnvironment
    /\ config \in LoadedConfigs
    /\ archive_files \in ArchiveListings
    /\ main_pc = "validate"
    /\ exit_code = -1
    /\ uncaught = ""
    /\ source_called = FALSE
    /\ target_called = FALSE

NextMain ==
    \/ Main_Validate
    \/ Main_Backup
    \/ Main_Restore
    \/ Main_End

SpecMain == InitMain /\ [][NextMain]_vars

\* DEFAULT_CONFIG (config.py lines 7-26): the credentials of both instances.
DefaultConfig == [source |-> AllSet(""), target |-> AllSet("")]

\* Lines 32-63: the file's part.  config.update(file_config) replaces the
\* 'source' and 'target' dicts whole; the old format copies its credentials
\* to the target unless the file has a 'target' key.
FromFile(file) ==
    CASE file.format = "new" ->
            [source |-> file.source,
             target |-> IF file.has_target THEN file.target
                                           ELSE DefaultConfig.target]
      [] file.format = "old" ->
            LET source == [f \in CredentialFields |->
                              IF f \in DOMAIN file.source THEN file.source[f] ELSE ""]
            IN [source |-> source,
                target |-> IF file.has_target THEN file.target ELSE source]
      [] OTHER -> DefaultConfig

\* Lines 67-80: ZENDESK_SOURCE_* first, the generic variable second.
SourceFromEnv(source, env) ==
    [f \in DOMAIN source \cup DOMAIN env.source \cup DOMAIN env.generic |->
        IF f \in DOMAIN env.source THEN env.source[f]
        ELSE IF f \in DOMAIN env.generic THEN env.generic[f]
        ELSE source[f]]

\* Lines 83-96: ZENDESK_TARGET_* first; the generic variable only fills a
\* target field that is empty, and reading that field raises KeyError when
\* the file's 'target' dict does not hold the key.
TargetEnvRaises(target, env) ==
    \E f \in CredentialFields :
        f \notin DOMAIN env.target /\ f \in DOMAIN env.generic /\ f \notin DOMAIN target

TargetFromEnv(target, env) ==
    [f \in DOMAIN target \cup DOMAIN env.target |->
        IF f \in DOMAIN env.target THEN env.target[f]
        ELSE IF f \in DOMAIN env.generic /\ target[f] = "" THEN env.generic[f]
        ELSE target[f]]

\* Lines 99-108: an empty target field takes the source's.  Reading a key
\* the dict does not hold raises KeyError.
TargetDefaultRaises(source, target) ==
    \E f \in CredentialFields :
        \/ f \notin DOMAIN target
        \/ target[f] = "" /\ f \notin DOMAIN source

TargetDefault(source, target) ==
    [f \in DOMAIN target |-> IF target[f] = "" THEN source[f] ELSE target[f]]

\* load_config (lines 28-110): the configuration returned, or the exception
\* that leaves the function.
LoadConfig(file, env) ==
    LET c == FromFile(file)
        source == SourceFromEnv(c.source, env)
        target == TargetFromEnv(c.target, env)
    IN IF TargetEnvRaises(c.target, env) \/ TargetDefaultRaises(source, target)
       THEN [raised |-> "KeyError", config |-> DefaultConfig]
       ELSE [raised |-> "",
             config |-> [source |-> source, target |-> TargetDefault(source, target)]]

\* backup.py lines 80-81 and 110-111: the instance each pass sends its
\* requests to.
BackupSubdomain(cfg) == cfg.source["zendesk_subdomain"]
RestoreSubdomain(cfg) == cfg.target["zendesk_subdomain"]

\* backup.py line 251: config = load_config(), outside every try block.
Main_Load ==
    /\ main_pc = "load"
    /\ UNCHANGED <<structure_vars, article_vars, log, fault_budget, lookup_vars,
                   backup_vars, mode, config_file, environ, archive_files,
                   source_called, target_called>>
    /\ LET r == LoadConfig(config_file, environ)
       IN IF r.raised # ""
          THEN /\ uncaught' = r.raised
               /\ exit_code' = 1
               /\ main_pc' = "exited"
               /\ UNCHANGED config
          ELSE /\ config' = r.config
               /\ main_pc' = "validate"
               /\ UNCHANGED <<exit_code, uncaught>>

\* __main__ at line 251: the default config file is in place if it could be
\* written, the configuration is about to be loaded.
InitConfig ==
    /\ structure_exists = FALSE
    /\ categories_file = "missing"
    /\ categories = <<>>
    /\ sections_file = "missing"
    /\ sections = <<>>
    /\ tgt_categories = <<>>
    /\ tgt_sections = <<>>
    /\ rs_pc = "idle"
    /\ category_id_map = EmptyMap
    /\ section_id_map = EmptyMap
    /\ existing_categories = <<>>
    /\ existing_categories_bound = FALSE
    /\ existing_sections = <<>>
    /\ cat_i = 1
    /\ sec_i = 1
    /\ posts = <<>>
    /\ rs_raised = FALSE
    /\ rs_caught = {}
    /\ create_failed = {}
    /\ faults = 0
    /\ body_files = EmptyMap
    /\ metadata_files = EmptyMap
    /\ tgt_articles = EmptyMap
    /\ ra_pc = "idle"
    /\ fail_fast = FALSE
    /\ queue = <<>>
    /\ article_ids = <<>>
    /\ art_i = 1
    /\ valid_section_id = None
    /\ restored_articles = <<>>
    /\ calls = <<>>
    /\ log = <<>>
    /\ fault_budget = MaxFaults
    /\ LookupsIdle
    /\ BackupIdle
    /\ mode \in Modes
    /\ config_file \in ConfigFiles
    /\ environ \in Environments
    /\ config = DefaultConfig
    /\ archive_files \in ArchiveListings
    /\ main_pc = "load"
    /\ exit_code = -1
    /\ uncaught = ""
    /\ source_called = FALSE
    /\ target_called = FALSE

NextConfig ==
    \/ Main_Load
    \/ Main_Validate
    \/ Main_Backup
    \/ Main_Restore
    \/ Main_End

SpecConfig == InitConfig /\ [][NextConfig]_vars

\* ------------------------------------------- the run, pass by pass, step by step
\* The structure of the source instance: one category with one section.
SourceCategories == <<[id |-> SourceCategoryId(1), name |-> "faq"]>>
SourceSections ==
    <<[id |-> SourceSectionId(1), name |-> "faq",
       category_id |-> SourceCategoryId(1)]>>

StructureOutcomes == [cats : ListOutcomes, secs : ListOutcomes, all : ListOutcomes]

\* backup_categories_and_sections (zendesk_api.py lines 134-199): o gives the
\* outcome of the category listing, of the section listing of the category
\* and of the listing of all sections.  categories.json is written when the
\* first is answered with success, sections.json always.
BackupStructure(o) ==
    LET got == IF o.cats = "ok" THEN SourceCategories ELSE <<>>
        of_category == IF got # <<>> /\ o.secs = "ok" THEN SourceSections ELSE <<>>
        others == IF o.all = "ok"
                  THEN SelectSeq(SourceSections,
                                 LAMBDA x : \A k \in 1..Len(of_category) :
                                               of_category[k].id # x.id)
                  ELSE <<>>
    IN [written |-> o.cats = "ok", categories |-> got,
        sections |-> of_category \o others, sent |-> 1 + Len(got) + 1]

\* backup.py lines 84-90: the first step of backup_articles.
BK_Structure ==
    /\ bk_pc = "structure"
    /\ UNCHANGED <<tgt_categories, tgt_sections, rs_pc, category_id_map,
                   section_id_map, existing_categories, existing_categories_bound,
                   existing_sections, cat_i, sec_i, posts, rs_raised, rs_caught,
                   create_failed, article_vars, fault_budget, lookup_vars,
                   mode, config_file, environ, config, archive_files, main_pc,
                   exit_code, uncaught, target_called,
                   src_pages, page_i, all_article_ids, list_requests, bk_i,
                   persisted, pulled, reported>>
    /\ \E o \in StructureOutcomes :
          LET r == BackupStructure(o)
              n == Fault(o.cats) + Fault(o.secs) + Fault(o.all)
          IN /\ n <= fault_budget - faults
             /\ r.categories = <<>> => o.secs = "ok"
             /\ faults' = faults + n
             /\ log' = log \o [j \in 1..r.sent |-> "backup_structure"]
             /\ structure_exists' = TRUE
             /\ categories_file' = IF r.written THEN "ok" ELSE categories_file
             /\ categories' = IF r.written THEN r.categories ELSE categories
             /\ sections_file' = "ok"
             /\ sections' = r.sections
             /\ source_called' = TRUE
             /\ bk_pc' = "list_standard"

\* Lines 264-266: `if args.mode in ['backup', 'both']`, backup_articles is called.
Run_BeginBackup ==
    /\ main_pc = "backup"
    /\ UNCHANGED <<structure_vars, article_vars, log, fault_budget, lookup_vars,
                   mode, config_file, environ, config, archive_files, exit_code,
                   uncaught, source_called, target_called,
                   src_pages, page_i, all_article_ids, list_requests, bk_i,
                   persisted, pulled, reported>>
    /\ IF mode \in {"backup", "both"}
       THEN main_pc' = "backing_up" /\ bk_pc' = "structure"
       ELSE main_pc' = "restore" /\ UNCHANGED bk_pc

\* Lines 266-267: backup_articles has returned.
BackupReturned_Early == TRUE
BackupReturned == bk_pc = "done"

Run_EndBackup ==
    /\ main_pc = "backing_up"
    /\ BackupReturned
    /\ main_pc' = "restore"
    /\ UNCHANGED <<structure_vars, article_vars, log, fault_budget, lookup_vars,
                   backup_vars, mode, config_file, environ, config, archive_files,
                   exit_code, uncaught, source_called, target_called>>

\* os.listdir gives the files in an order of its own.
ArchiveOrders(files) ==
    {q \in SeqsUpTo(ArticleIds, Cardinality(ArticleIds)) :
        /\ Len(q) = Cardinality(files)
        /\ {FileName(q[k]) : k \in 1..Len(q)} = files}

\* Lines 269-271 and 107-114: `if args.mode in ['restore', 'both']`,
\* restore_articles is called and lists the backup folder.
Run_BeginRestore ==
    /\ main_pc = "restore"
    /\ UNCHANGED <<structure_vars, body_files, metadata_files, tgt_articles,
                   fail_fast, article_ids, art_i, valid_section_id,
                   restored_articles, calls, log, fault_budget, lookup_vars,
                   backup_vars, mode, config_file, environ, config, archive_files,
                   source_called, target_called>>
    /\ IF mode \notin {"restore", "both"}
       THEN /\ main_pc' = "end"
            /\ UNCHANGED <<queue, ra_pc, exit_code, uncaught>>
       ELSE IF ArticleIdsFromBackup(archive_files) # "ok"
       THEN /\ uncaught' = ArticleIdsFromBackup(archive_files)
            /\ exit_code' = 1
            /\ main_pc' = "exited"
            /\ UNCHANGED <<queue, ra_pc>>
       ELSE /\ queue' \in ArchiveOrders(archive_files)
            /\ ra_pc' = "begin"
            /\ main_pc' = "restoring"
            /\ UNCHANGED <<exit_code, uncaught>>

\* Lines 271-272: restore_articles has returned.
Run_EndRestore ==
    /\ main_pc = "restoring"
    /\ ra_pc = "done"
    /\ main_pc' = "end"
    /\ target_called' = (queue # <<>>)
    /\ UNCHANGED <<structure_vars, article_vars, log, fault_budget, lookup_vars,
                   backup_vars, mode, config_file, environ, config, archive_files,
                   exit_code, uncaught, source_called>>

\* __main__ at line 257 with a fresh target.  The backup folder is empty or
\* holds what an earlier backup of the source left: the structure snapshot
\* and article 101.
InitRun ==
    /\ structure_exists \in BOOLEAN
    /\ categories_file = IF structure_exists THEN "ok" ELSE "missing"
    /\ categories = IF structure_exists THEN SourceCategories ELSE <<>>
    /\ sections_file = categories_file
    /\ sections = IF structure_exists THEN SourceSections ELSE <<>>
    /\ tgt_categories = <<>>
    /\ tgt_sections = <<>>
    /\ rs_pc = "idle"
    /\ category_id_map = EmptyMap
    /\ section_id_map = EmptyMap
    /\ existing_categories = <<>>
    /\ existing_categories_bound = FALSE
    /\ existing_sections = <<>>
    /\ cat_i = 1
    /\ sec_i = 1
    /\ posts = <<>>
    /\ rs_raised = FALSE
    /\ rs_caught = {}
    /\ create_failed = {}
    /\ faults = 0
    /\ archive_files = IF structure_exists THEN {FileName(Min(ArticleIds))} ELSE {}
    /\ body_files = [id \in ArticleIds |->
                        IF FileName(id) \in archive_files THEN PulledBody
                                                          ELSE Unreadable]
    /\ metadata_files = [id \in ArticleIds |->
                            IF FileName(id) \in archive_files THEN PulledMetadata(id)
                                                              ELSE NoMetadata]
    /\ tgt_articles = EmptyMap
    /\ ra_pc = "idle"
    /\ fail_fast \in BOOLEAN
    /\ queue = <<>>
    /\ article_ids = <<>>
    /\ art_i = 1
    /\ valid_section_id = None
    /\ restored_articles = <<>>
    /\ calls = <<>>
    /\ log = <<>>
    /\ fault_budget = MaxFaults
    /\ LookupsIdle
    /\ src_pages \in {p \in SourceListings :
                         Len(p) + Len(p[1]) = 3 /\ \A i \in 1..Len(p) :
                            \A j \in 1..Len(p[i]) : ~p[i][j].draft}
    /\ bk_pc = "idle"
    /\ page_i = 1
    /\ all_article_ids = <<>>
    /\ list_requests = <<>>
    /\ bk_i = 1
    /\ persisted = {}
    /\ pulled = <<>>
    /\ reported = None
    /\ mode \in Modes
    /\ config_file = NoConfigFile
    /\ environ = NoEnvironment
    /\ config \in {c \in LoadedConfigs :
                      \A f \in CredentialFields : c.source[f] # "" /\ c.target[f] # ""}
    /\ main_pc = "validate"
    /\ exit_code = -1
    /\ uncaught = ""
    /\ source_called = FALSE
    /\ target_called = FALSE

NextRun ==
    \/ Main_Validate
    \/ Run_BeginBackup
    \/ BK_Structure
    \/ BK_ListStandard
    \/ BK_ListGuide
    \/ BK_Pull
    \/ BK_Report
    \/ Run_EndBackup
    \/ Run_BeginRestore
    \/ RA_Begin
    \/ RS_Start
    \/ RS_LoadCategories
    \/ RS_Category
    \/ RS_LoadSections
    \/ RS_Section
    \/ RA_StructureDone
    \/ LK_Section
    \/ LK_PermissionGroups
    \/ LK_UserSegments
    \/ RA_LookupsDone
    \/ RA_Probe
    \/ RA_Loop
    \/ Run_EndRestore
    \/ Main_End

SpecRun == InitRun /\ [][NextRun]_vars

\* ------------------------------------------------- claims: reconciliation
CategoryIds == {categories[k].id : k \in 1..Len(categories)}
SectionIds == {sections[k].id : k \in 1..Len(sections)}
TargetCategoryIds == {tgt_categories[k].id : k \in 1..Len(tgt_categories)}
PostsFor(kind, old_id) ==
    {k \in 1..Len(posts) : posts[k].kind = kind /\ posts[k].old_id = old_id}

\* C6: restore_structure never raises, whatever the snapshot files and the
\* target's answers are: no exception leaves it, and when it returns both
\* maps are (possibly partial or empty) maps over the snapshot's identifiers.
C6_NeverRaises ==
    /\ rs_raised = FALSE
    /\ rs_pc = "done" =>
          /\ DOMAIN category_id_map \subseteq CategoryIds
          /\ DOMAIN section_id_map \subseteq SectionIds

\* An exception was raised in each of the two blocks and the function returned.
C6_Witness ==
    /\ rs_pc = "done"
    /\ rs_caught = {"categories", "sections"}
    /\ Len(sections) > 0

\* C7: every value of the returned category map is the identifier of a
\* category that exists on the target (listed before, or created here).
C7_CategoryMapValuesExist ==
    rs_pc = "done" =>
        \A old \in DOMAIN category_id_map :
            category_id_map[old] \in TargetCategoryIds

\* C8: a snapshot category (section) whose name equals, up to letter case,
\* the name of a category (section) the target listed is mapped to that
\* existing identifier, and no create request is sent for it.
C8_NameMatchIsMappedWithoutCreate ==
    rs_pc = "done" =>
        /\ \A k \in 1..Len(categories) :
              LET m == MatchIndex(existing_categories, categories[k].name)
              IN m # 0 =>
                   /\ categories[k].id \in DOMAIN category_id_map
                   /\ category_id_map[categories[k].id] = existing_categories[m].id
                   /\ PostsFor("category", categories[k].id) = {}
        /\ \A k \in 1..Len(sections) :
              LET m == MatchIndex(existing_sections, sections[k].name)
              IN m # 0 =>
                   /\ sections[k].id \in DOMAIN section_id_map
                   /\ section_id_map[sections[k].id] = existing_sections[m].id
                   /\ PostsFor("section", sections[k].id) = {}

\* The parent category of a snapshot section counts as resolved when its
\* source category is a key of the category map or the first listed target
\* category stands in for it.
CategoryResolved(section) ==
    \/ section.category_id \in DOMAIN category_id_map
    \/ existing_categories_bound /\ Len(existing_categories) > 0

C10_CreateFailureDoesNotAbort ==
    rs_pc = "done" =>
        /\ \A old \in create_failed \cap CategoryIds :
              /\ old \notin DOMAIN category_id_map
              /\ cat_i > Len(categories)
        /\ \A old \in create_failed \cap SectionIds :
              /\ old \notin DOMAIN section_id_map
              /\ sec_i > Len(sections)


\* ------------------------------------------------ claims: article restore
MetadataOf(k) == metadata_files[calls[k].article_id]
WritesOf(k) ==
    {j \in 1..Len(calls[k].reqs) : calls[k].reqs[j].method \in {"PUT", "POST"}}

\* C1: when the metadata's section_id is a key of section_id_map, the write
\* that is issued, create or update alike, targets the mapped section and the
\* restored article ends up in that section on the target.
C1_MappedSectionForEveryWrite ==
    \A k \in 1..Len(calls) :
        (MetadataOf(k).kind = "dict" /\ MetadataOf(k).section_id \in DOMAIN section_id_map) =>
            /\ \A j \in WritesOf(k) :
                  calls[k].reqs[j].section = section_id_map[MetadataOf(k).section_id]
            /\ calls[k].result =>
                  calls[k].placed = section_id_map[MetadataOf(k).section_id]

\* The section the article resolves to is empty: its section_id is no key of
\* section_id_map and the fallback is empty, or the map holds an empty value.
NoUsableSection(k) ==
    /\ MetadataOf(k).kind = "dict"
    /\ \/ /\ MetadataOf(k).section_id \notin DOMAIN section_id_map
          /\ valid_section_id = None
       \/ /\ MetadataOf(k).section_id \in DOMAIN section_id_map
          /\ section_id_map[MetadataOf(k).section_id] = None

\* C2: when the resolved section is empty (the metadata's section_id is no
\* key of section_id_map and the section fallback is empty), restore_article
\* returns False and sends no request at all: no probe, no update, no create.
C2_NoSectionNoRequest ==
    \A k \in 1..Len(calls) :
        NoUsableSection(k) =>
            /\ ~calls[k].raised
            /\ ~calls[k].result
            /\ calls[k].reqs = <<>>

\* restore_article was called for an article without a resolvable section
\* while the run could still go on to other articles.
C2_Witness ==
    \E k \in 1..Len(calls) :
        /\ MetadataOf(k).kind = "dict"
        /\ MetadataOf(k).section_id \notin DOMAIN section_id_map
        /\ valid_section_id = None
        /\ Len(calls) > k

\* The fail-fast probe on the first queued article did not succeed: its body
\* could not be read, it has no metadata, or restore_article raised or
\* returned False.
FailFastProbeFailed ==
    /\ fail_fast
    /\ ra_pc # "probe"
    /\ \/ body_files[queue[1]] = Unreadable
       \/ metadata_files[queue[1]].kind = "none"
       \/ Len(calls) > 0 /\ (calls[1].raised \/ ~calls[1].result)

\* C3: in fail-fast mode a failed probe makes restore_articles return an
\* empty list, and no restore is attempted for any other queued article.
C3_FailedProbeAbortsPass ==
    FailFastProbeFailed =>
        /\ ra_pc = "done"
        /\ restored_articles = <<>>
        /\ Len(calls) <= 1
        /\ \A k \in 1..Len(calls) : calls[k].article_id = queue[1]

\* Two articles are queued, the probe reached the target and failed there.
C3_Witness ==
    /\ FailFastProbeFailed
    /\ Len(queue) >= 2
    /\ Len(calls) = 1
    /\ calls[1].reqs # <<>>
    /\ metadata_files[queue[2]].kind = "dict"
    /\ body_files[queue[2]] # Unreadable

\* C4: restoring the same article id twice in succession on a target that
\* answers every request according to its state succeeds both times, and the
\* second restore takes the update branch.
C4_SecondRestoreUpdates ==
    \A k \in 1..(Len(calls) - 1) :
        (/\ faults = 0
         /\ calls[k].article_id = calls[k + 1].article_id
         /\ calls[k].result) =>
            /\ calls[k + 1].result
            /\ calls[k + 1].branch = "update"

\* C5: every update or create request carries draft = false, promoted = true,
\* the archived body and the metadata's title.
C5_WritesForcePublished ==
    \A k \in 1..Len(calls) : \A j \in WritesOf(k) :
        LET payload == calls[k].reqs[j].payload
        IN /\ payload.draft = FALSE
           /\ payload.promoted = TRUE
           /\ payload.body = body_files[calls[k].article_id]
           /\ MetadataOf(k).title # NoTitle => payload.title = MetadataOf(k).title

\* An update and a create were both sent for articles that have a title.
C5_Witness ==
    /\ \E k \in 1..Len(calls) : \E j \in WritesOf(k) :
          calls[k].reqs[j].method = "PUT" /\ MetadataOf(k).title # NoTitle
    /\ \E k \in 1..Len(calls) : \E j \in WritesOf(k) :
          calls[k].reqs[j].method = "POST" /\ MetadataOf(k).title # NoTitle


\* ------------------------------------------- claims: restore_article's writes
ProbeFound(k) ==
    \E j \in 1..Len(calls[k].reqs) :
        calls[k].reqs[j].method = "GET" /\ calls[k].statuses[j] = "success"

\* C13: after the probe, restore_article sends only update requests when the
\* probe found the article and only create requests when it did not; the
\* standard endpoint comes first and the guide endpoint follows only a
\* standard write that did not return success; the call returns True exactly
\* when one of its writes returned success, and a successful write is the
\* last request of the call.
C13_WritePath ==
    \A k \in 1..Len(calls) :
        LET c == calls[k]
            W == WritesOf(k)
        IN /\ Cardinality(W) <= 2
           /\ \A j \in W :
                 /\ c.reqs[j].method = IF ProbeFound(k) THEN "PUT" ELSE "POST"
                 /\ c.reqs[j].api = "help_center" => (j - 1) \notin W
                 /\ c.reqs[j].api = "guide" =>
                       /\ (j - 1) \in W
                       /\ c.reqs[j - 1].api = "help_center"
                       /\ c.statuses[j - 1] = "failure"
                 /\ c.statuses[j] = "success" => j = Len(c.reqs)
           /\ c.result <=> (\E j \in W : c.statuses[j] = "success")

\* An update that succeeded on the guide endpoint after the standard one
\* failed, and a create that succeeded at once.
C13_Witness ==
    /\ \E k \in 1..Len(calls) :
          /\ calls[k].branch = "update"
          /\ Cardinality(WritesOf(k)) = 2
          /\ calls[k].result
    /\ \E k \in 1..Len(calls) :
          /\ calls[k].branch = "create"
          /\ Cardinality(WritesOf(k)) = 1
          /\ calls[k].result

\* C14: when a request sent by restore_article raises, the call sends nothing
\* further, returns False and lets no exception reach its caller.
C14_RaisingRequestIsCaught ==
    \A k \in 1..Len(calls) :
        \A j \in 1..Len(calls[k].reqs) :
            calls[k].statuses[j] = "raised" =>
                /\ j = Len(calls[k].reqs)
                /\ ~calls[k].raised
                /\ ~calls[k].result

\* A write raised, and the pass went on to restore another article.
C14_Witness ==
    \E k \in 1..Len(calls) :
        /\ \E j \in WritesOf(k) : calls[k].statuses[j] = "raised"
        /\ Len(calls) > k


\* A field of a request payload, None when the payload does not carry it.
PayloadField(payload, f) == IF f \in DOMAIN payload THEN payload[f] ELSE None

\* C24: the permission-group id and the user-segment id of every write
\* request are the fallback values the orchestrator passed in, never the ones
\* stored in the article's metadata; a fallback that is absent leaves the
\* field out of the request.
C24_AccessFromFallbacks ==
    \A k \in 1..Len(calls) : \A j \in 1..Len(calls[k].reqs) :
        calls[k].reqs[j].method # "GET" =>
            LET payload == calls[k].reqs[j].payload
            IN /\ ("permission_group_id" \in DOMAIN payload)
                     <=> valid_permission_group_id # None
               /\ ("user_segment_id" \in DOMAIN payload)
                     <=> valid_user_segment_id # None
               /\ PayloadField(payload, "permission_group_id") = valid_permission_group_id
               /\ PayloadField(payload, "user_segment_id") = valid_user_segment_id

\* A write was sent for an article whose metadata stores a permission group
\* and a user segment, with no permission-group fallback and a user-segment
\* fallback that differs from the stored one.
C24_Witness ==
    \E k \in 1..Len(calls) : \E j \in 1..Len(calls[k].reqs) :
        /\ calls[k].reqs[j].method # "GET"
        /\ MetadataOf(k).permission_group_id # None
        /\ MetadataOf(k).user_segment_id # None
        /\ valid_permission_group_id = None
        /\ valid_user_segment_id \notin {None, MetadataOf(k).user_segment_id}

\* ------------------------------------------------ claims: the main restore loop
\* An article the loop can hand to restore_article: its body can be read and
\* it has metadata.
Attemptable(id) == body_files[id] # Unreadable /\ metadata_files[id].kind # "none"
CallIds == [k \in 1..Len(calls) |-> calls[k].article_id]

\* C18: in fail-fast mode the iterations before the last one all succeeded,
\* and an iteration that did not succeed (missing metadata, failed restore or
\* exception) ended the loop, so nothing queued behind it was attempted;
\* without fail-fast the loop visits every queued article once, whatever
\* failed before, and calls restore_article once for each that has a body and
\* metadata.
C18_LoopControl ==
    LET visited == art_i - 1
        n == Len(restored_articles) - 1
    IN /\ (~fail_fast /\ ra_pc = "done") =>
             /\ visited = Len(article_ids)
             /\ CallIds = SelectSeq(article_ids, Attemptable)
       /\ fail_fast =>
             /\ restored_articles = <<ProbedArticleId>> \o SubSeq(article_ids, 1, n)
             /\ visited \in {n, n + 1}
             /\ visited = n + 1 => ra_pc = "done"
             /\ (ra_pc = "done" /\ visited = n) => n = Len(article_ids)
             /\ Len(calls) <= visited

\* Fail-fast: the restore of the first article of the loop failed on the
\* target and the article queued behind it was left alone.
C18_Witness ==
    /\ fail_fast
    /\ ra_pc = "done"
    /\ Len(article_ids) = 2
    /\ art_i = 2
    /\ Len(calls) = 1
    /\ calls[1].reqs # <<>>
    /\ Attemptable(article_ids[2])


NoRepeat(seq) == \A i, j \in 1..Len(seq) : i # j => seq[i] # seq[j]

IsPrefix(a, b) == Len(a) <= Len(b) /\ \A k \in 1..Len(a) : a[k] = b[k]

\* The ids of the restore_article calls that returned success, in call order.
SucceededIds ==
    LET ok == SelectSeq(calls, LAMBDA c : ~c.raised /\ c.result)
    IN [k \in 1..Len(ok) |-> ok[k].article_id]

\* C28: the list restore_articles returns is exactly the queued article ids
\* whose restore_article call returned success, in queue order and with no id
\* added twice; in fail-fast mode the article of the probe is not attempted
\* again by the main loop and the list is a prefix of the queue.
C28_ReturnedList ==
    ra_pc = "done" =>
        /\ restored_articles = SucceededIds
        /\ NoRepeat(restored_articles)
        /\ fail_fast =>
              /\ IsPrefix(restored_articles, queue)
              /\ \A k \in 2..Len(calls) : calls[k].article_id # calls[1].article_id

\* The same for an archive that gives every id once.
C28_ReturnedListOfDistinctIds ==
    NoRepeat(queue) => C28_ReturnedList

\* ------------------------------------------------- claims: fallback lookups
LookupRaisedOn(k) ==
    \E j \in 1..Len(lookups[k].statuses) : lookups[k].statuses[j] = "raised"

\* C15: no exception leaves a fallback lookup; a lookup one of whose requests
\* raised (network or parse failure) returns exactly the default it was given.
C15_LookupsNeverRaise ==
    /\ ~lk_raised
    /\ \A k \in 1..Len(lookups) :
          /\ ~lookups[k].raised
          /\ LookupRaisedOn(k) =>
                /\ lookups[k].from = "default"
                /\ lookups[k].result = lookups[k].default

\* The segment lookup raised although the target has segments and a default
\* is configured, and the three lookups all returned.
C15_Witness ==
    /\ lk_pc = "done"
    /\ Len(lookups) = 3
    /\ LookupRaisedOn(3)
    /\ tgt_user_segments # <<>>
    /\ lookups[3].default # None

\* C20 as stated: a lookup returns the configured default only after it has
\* queried the standard endpoint and then the guide endpoint.
C20_DefaultOnlyAfterBothPaths ==
    \A k \in 1..Len(lookups) :
        lookups[k].from = "default" => lookups[k].queried = <<"standard", "guide">>

\* C20 amended: the standard endpoint is always queried first; a lookup whose
\* standard request was answered with nothing usable (a non-success status or
\* an empty list) queries the guide endpoint before it returns the default;
\* the only default returned without a guide query is the one returned
\* because the standard request raised.
C20_DefaultAfterGuideUnlessRaise ==
    \A k \in 1..Len(lookups) :
        LET l == lookups[k]
        IN /\ l.queried[1] = "standard"
           /\ l.statuses[1] \in {"empty", "failure"} => l.queried = <<"standard", "guide">>
           /\ l.from = "default" =>
                 \/ l.queried = <<"standard", "guide">>
                 \/ l.queried = <<"standard">> /\ l.statuses = <<"raised">>

\* One lookup returned the default after both endpoints answered with nothing
\* usable, another one after its standard request raised.
C20_Witness ==
    /\ \E k \in 1..Len(lookups) :
          /\ lookups[k].from = "default"
          /\ lookups[k].queried = <<"standard", "guide">>
          /\ lookups[k].statuses[2] # "raised"
    /\ \E k \in 1..Len(lookups) :
          /\ lookups[k].from = "default"
          /\ lookups[k].statuses = <<"raised">>


\* A request of lookup l was answered with a non-empty list.
Yields(l) == \E j \in 1..Len(l.statuses) : l.statuses[j] = "usable"

\* Segment k of the listing bears one of the preferred names, in any case.
PreferredAt(listing, k) ==
    Lower(listing[k].name) \in {"everyone", "all", "signed-in users"}

\* C22: get_user_segments returns, from the first listing answered with
\* success and at least one segment, the id of the first segment named
\* everyone, all or signed-in users (in any case) if there is one, the id of
\* the first listed segment otherwise; it returns the configured default when,
\* and only when, no request yielded a segment.
C22_PreferredSegment ==
    \A k \in 1..Len(lookups) :
        lookups[k].lookup = "segment" =>
            LET l == lookups[k]
                s == tgt_user_segments
            IN /\ Yields(l) =>
                     /\ l.from # "default"
                     /\ IF \E i \in 1..Len(s) : PreferredAt(s, i)
                        THEN \E i \in 1..Len(s) :
                                /\ PreferredAt(s, i)
                                /\ \A j \in 1..(i - 1) : ~PreferredAt(s, j)
                                /\ l.result = s[i].id
                        ELSE l.result = s[1].id
               /\ ~Yields(l) => l.from = "default" /\ l.result = l.default

\* The segment lookup returned "Everyone", listed second after a segment
\* without a preferred name.
C22_Witness ==
    \E k \in 1..Len(lookups) :
        /\ lookups[k].lookup = "segment"
        /\ Yields(lookups[k])
        /\ Len(tgt_user_segments) = 2
        /\ ~PreferredAt(tgt_user_segments, 1)
        /\ PreferredAt(tgt_user_segments, 2)
        /\ lookups[k].result = tgt_user_segments[2].id

\* The listing the lookup named `name` reads.
ListingOf(name) ==
    CASE name = "section" -> tgt_sections
      [] name = "permission" -> tgt_permission_groups
      [] OTHER -> tgt_user_segments

\* C23 as stated: get_valid_section_id and get_permission_groups return the
\* id of the first element whenever the target has at least one section
\* (permission group), and the configured default exactly when no listing
\* yields an element.
C23_FirstWheneverTargetHasOne ==
    \A k \in 1..Len(lookups) :
        lookups[k].lookup \in {"section", "permission"} =>
            LET l == lookups[k]
                s == ListingOf(l.lookup)
            IN /\ s # <<>> => l.result = s[1].id
               /\ l.from = "default" <=> ~Yields(l)

\* C23 amended: get_valid_section_id and get_permission_groups return the id
\* of the first element of the listing whenever one of their requests was
\* answered with success and a non-empty list, and return the configured
\* default (possibly empty) exactly when no request yielded an element, be
\* the target's listing empty or not.
C23_FirstOfYieldedListing ==
    \A k \in 1..Len(lookups) :
        lookups[k].lookup \in {"section", "permission"} =>
            LET l == lookups[k]
                s == ListingOf(l.lookup)
            IN /\ Yields(l) => s # <<>> /\ l.from # "default" /\ l.result = s[1].id
               /\ ~Yields(l) => l.from = "default" /\ l.result = l.default
               /\ l.from = "default" <=> ~Yields(l)

\* The section lookup took the first of two sections from the guide listing,
\* and the permission-group lookup returned the default although the target
\* has permission groups.
C23_Witness ==
    /\ Len(lookups) >= 2
    /\ lookups[1].lookup = "section"
    /\ Len(tgt_sections) = 2
    /\ lookups[1].result = tgt_sections[1].id
    /\ lookups[2].lookup = "permission"
    /\ tgt_permission_groups # <<>>
    /\ lookups[2].from = "default"

\* ----------------------------------------------- claims: the whole restore pass
CategoryMatched(old_id) ==
    \E k \in 1..Len(categories) :
        categories[k].id = old_id /\ MatchIndex(existing_categories, categories[k].name) # 0
SectionMatched(old_id) ==
    \E k \in 1..Len(sections) :
        sections[k].id = old_id /\ MatchIndex(existing_sections, sections[k].name) # 0

\* C11: in the category map and in the section map, two different source
\* identifiers have the same value only when both were matched by name to an
\* entity the target listed; a value taken from a create response is the
\* value of one source identifier only.
C11_CreatedIdsNotShared ==
    /\ \A a, b \in DOMAIN category_id_map :
          (a # b /\ category_id_map[a] = category_id_map[b]) =>
              CategoryMatched(a) /\ CategoryMatched(b)
    /\ \A a, b \in DOMAIN section_id_map :
          (a # b /\ section_id_map[a] = section_id_map[b]) =>
              SectionMatched(a) /\ SectionMatched(b)

\* C12: in the order the requests of one pass are sent, no category create
\* follows a section create, and no category or section create follows an
\* article probe or write.
C12_CategoriesSectionsArticles ==
    \A i, j \in 1..Len(log) :
        i < j =>
            /\ ~(log[i] = "create_section" /\ log[j] = "create_category")
            /\ ~(/\ log[i] \in {"probe_article", "write_article"}
                 /\ log[j] \in {"create_category", "create_section"})

\* A pass that created a category, then a section, then wrote an article.
C12_Witness ==
    /\ \E i \in 1..Len(log) : log[i] = "create_category"
    /\ \E i \in 1..Len(log) : log[i] = "create_section"
    /\ \E i \in 1..Len(log) : log[i] = "write_article"
    /\ ra_pc = "done"

\* C17: with no article body file in the archive the pass ends with an empty
\* result and has sent no request: restore_structure and the lookups are not
\* called, restore_article is not called.
C17_EmptyArchiveNoRequest ==
    queue = <<>> =>
        /\ log = <<>>
        /\ rs_pc = "idle"
        /\ lk_pc = "idle"
        /\ calls = <<>>
        /\ restored_articles = <<>>
        /\ ra_pc \in {"begin", "done"}

\* The pass ended on an empty archive whose structure snapshot is there.
C17_Witness ==
    /\ queue = <<>>
    /\ ra_pc = "done"
    /\ categories # <<>>
    /\ sections # <<>>


\* ------------------------------------------------------ claims: backup pass
\* C16: the number of backed-up articles the pass reports is the number of
\* ids whose body and metadata were persisted (an id whose fetch failed is
\* not counted), and the pass has gone through every listed id.
C16_FailedFetchNotCounted ==
    bk_pc = "done" =>
        /\ reported = Cardinality(persisted)
        /\ Len(pulled) = Len(all_article_ids)

\* The listing requests sent to one endpoint, in order.
RequestsOn(api) == SelectSeq(list_requests, LAMBDA r : r.api = api)

\* get_public_article_ids has returned.
ListingOver == bk_pc \in {"pull", "done"}

GuideListingQueried == RequestsOn("guide") # <<>>

\* The ids of the articles of a page that are not drafts, in page order.
RECURSIVE NonDraftIds(_)
NonDraftIds(page) ==
    IF page = <<>> THEN <<>>
    ELSE (IF Head(page).draft THEN <<>> ELSE <<Head(page).id>>)
         \o NonDraftIds(Tail(page))

\* The non-draft ids of the pages that the requests reqs obtained, in order.
RECURSIVE Obtained(_)
Obtained(reqs) ==
    IF reqs = <<>> THEN <<>>
    ELSE (IF Head(reqs).status = "success"
          THEN NonDraftIds(src_pages[Head(reqs).page]) ELSE <<>>)
         \o Obtained(Tail(reqs))

\* C21 as stated: the backup pass queries the guide listing when, and only
\* when, the standard listing returned a non-success status.
C21_GuideListingIffStandardFailed ==
    ListingOver =>
        (GuideListingQueried <=>
            \E k \in 1..Len(list_requests) :
                /\ list_requests[k].api = "standard"
                /\ list_requests[k].status = "failure")

ListingStopsWhereItShould ==
    \A api \in {"standard", "guide"} :
        LET reqs == RequestsOn(api)
        IN /\ \A k \in 1..Len(reqs) : reqs[k].page = k
           /\ Len(reqs) <= Len(src_pages)
           /\ \A k \in 1..(Len(reqs) - 1) : reqs[k].status = "success"

\* C30: on a finite chain of pages the article listing terminates; on each
\* path it stops at the first response without success or at the first page
\* without a cursor, and it queries each path at most once, from its first
\* page.
C30_ListingTerminates ==
    /\ []ListingStopsWhereItShould
    /\ <>ListingOver

\* The standard listing stopped at a non-success status on its first page,
\* the guide listing then went through both pages.
C30_Witness ==
    /\ ListingOver
    /\ Len(src_pages) = 2
    /\ Len(RequestsOn("standard")) = 1
    /\ RequestsOn("standard")[1].status = "failure"
    /\ Len(RequestsOn("guide")) = 2


\* ------------------------------------------------------ claims: the run
\* C19: the run exits with code 1 exactly when a credential of the instance
\* the mode needs is missing, and then no request has been sent; in every
\* other case it exits with code 0.
C19_ExitCode ==
    main_pc = "exited" =>
        /\ exit_code \in {0, 1}
        /\ exit_code = 1 <=> ~ValidateConfig(config, mode)
        /\ exit_code = 1 => ~source_called /\ ~target_called

\* The requests of the backup pass; every other request of the log is one
\* of the restore pass.
BackupTags == {"backup_structure", "list_articles", "pull_article"}
BackupRequests == {k \in 1..Len(log) : log[k] \in BackupTags}
RestoreRequests == {k \in 1..Len(log) : log[k] \notin BackupTags}

BackupActive == bk_pc \notin {"idle", "done"}
RestoreActive == ra_pc \notin {"idle", "done"}

\* Idle, Backing Up, Restoring, Done, with the two mode tests between them.
RunRank ==
    CASE main_pc \in {"validate", "backup"} -> 0
      [] main_pc = "backing_up" -> 1
      [] main_pc = "restore" -> 2
      [] main_pc = "restoring" -> 3
      [] OTHER -> 4

\* One frame of the program is at work at a time: the backup pass, or the
\* restore pass, which is inside restore_structure or inside the lookups only
\* while it calls them.
OneAtWork ==
    /\ BackupActive => main_pc = "backing_up"
    /\ RestoreActive => main_pc = "restoring"
    /\ ~(BackupActive /\ RestoreActive)
    /\ rs_pc \notin {"idle", "done"} => ra_pc = "structure"
    /\ lk_pc \notin {"idle", "done"} => ra_pc = "lookups"

\* What the backup pass writes.
BackupWrites ==
    <<archive_files, body_files, metadata_files, structure_exists,
      categories_file, categories, sections_file, sections, persisted, pulled>>

\* C26: the run goes through Idle, Backing Up, Restoring and Done in that
\* order and enters a pass only when the mode names it; the passes never
\* overlap and one frame is at work at a time; every request of the backup
\* pass precedes every request of the restore pass, and once the restore pass
\* has begun nothing the backup pass writes changes; in mode backup no request
\* of the restore pass (the calls to the target) is sent and in mode restore
\* no request of the backup pass (the calls to the source).
C26_PassesInSequence ==
    /\ [](/\ OneAtWork
          /\ main_pc = "backing_up" => mode \in {"backup", "both"}
          /\ main_pc = "restoring" => mode \in {"restore", "both"}
          /\ \A b \in BackupRequests : \A r \in RestoreRequests : b < r
          /\ mode = "backup" => RestoreRequests = {} /\ ra_pc = "idle"
          /\ mode = "restore" => BackupRequests = {} /\ bk_pc = "idle")
    /\ [][/\ RunRank' >= RunRank
          /\ ra_pc # "idle" =>
                /\ UNCHANGED BackupWrites
                /\ BackupRequests' = BackupRequests]_vars

\* A run in mode both has ended: the backup pass wrote an article and the
\* restore pass restored one.
C26_Witness ==
    /\ mode = "both"
    /\ main_pc = "end"
    /\ persisted # {}
    /\ restored_articles # <<>>
    /\ BackupRequests # {}
    /\ RestoreRequests # {}

\* C27: no exception raised on one entity ends the run, the file names of the
\* archive from which the article ids are derived included: a run whose
\* credentials are complete goes through the passes its mode selects, reports
\* their counts and ends regularly.
C27_NoEntityExceptionEndsRun ==
    /\ uncaught = ""
    /\ main_pc = "exited" /\ ValidateConfig(config, mode) =>
          /\ exit_code = 0
          /\ mode \in {"backup", "both"} => source_called

\* ------------------------------------------------ claims: the configuration
\* A target credential is set in the file (the credentials of an old-format
\* file without a 'target' key count for both instances) or by a variable.
TargetSetInFile(f) ==
    \/ config_file.has_target /\ f \in DOMAIN config_file.target
                              /\ config_file.target[f] # ""
    \/ config_file.format = "old" /\ ~config_file.has_target
                                  /\ f \in DOMAIN config_file.source
                                  /\ config_file.source[f] # ""
TargetSetByEnv(f) == f \in DOMAIN environ.target \/ f \in DOMAIN environ.generic

\* load_config has returned.
ConfigLoaded == main_pc # "load" /\ uncaught # "KeyError"

\* C29: load_config returns, and afterwards each target credential that is
\* set neither in the file nor by an environment variable equals the source's;
\* so a restore run that is given source credentials only passes validation
\* and sends its requests to the source instance.
C29_UnsetTargetTakesSource ==
    /\ uncaught # "KeyError"
    /\ ConfigLoaded =>
          /\ \A f \in CredentialFields :
                ~TargetSetInFile(f) /\ ~TargetSetByEnv(f) =>
                    config.target[f] = config.source[f]
          /\ (/\ \A f \in CredentialFields :
                     ~TargetSetInFile(f) /\ ~TargetSetByEnv(f) /\ config.source[f] # ""
               /\ mode = "restore") =>
                 /\ ValidateConfig(config, mode)
                 /\ RestoreSubdomain(config) = BackupSubdomain(config)
                 /\ main_pc = "exited" /\ uncaught = "" => exit_code = 0

====
